---------------------------- MODULE Spec2Model ----------------------------
(***************************************************************************)
(* A model of the Symbolic Fourier Approximation transformer               *)
(* (aeon/transformations/collection/dictionary_based/_sfa.py): the         *)
(* estimator's construction, fit (validation, derived bit widths,          *)
(* binning), the parallel per-series transform, word-length shortening     *)
(* and the letter decoding of saved words.                                 *)
(*                                                                         *)
(* Numbers.  Words and bag keys are integers of up to 64 bits (numba and   *)
(* numpy int64) or of unbounded size (Python int).  They are modelled      *)
(* exactly, as two's complement bit strings: [s |-> sign, b |-> bits],     *)
(* the bits most significant first, standing for ...sss b; the string is   *)
(* kept canonical (b is empty or starts with a bit other than s), so two   *)
(* values are the same integer iff they are the same record.  Real         *)
(* numbers (Fourier coefficients, breakpoints) are exact rationals         *)
(* [n |-> numerator, d |-> denominator] counted in thousandths.            *)
(***************************************************************************)
EXTENDS Integers, Sequences, FiniteSets, TLC

\* ------------------------------------------------------------------------
\* Integers: Python int and 64-bit two's complement
\* ------------------------------------------------------------------------

\* Width of numba/numpy int64 and of the typed dictionary's keys.
IntBits == 64

Max(a, b) == IF a >= b THEN a ELSE b

Min(a, b) == IF a <= b THEN a ELSE b

RECURSIVE Pow2(_)
Pow2(k) == IF k = 0 THEN 1 ELSE 2 * Pow2(k - 1)

\* math.ceil(math.log2(n)) for n >= 1: the least k with 2^k >= n.
RECURSIVE CeilLog2From(_, _)
CeilLog2From(n, k) == IF Pow2(k) >= n THEN k ELSE CeilLog2From(n, k + 1)

CeilLog2(n) == CeilLog2From(n, 0)

\* int(np.log2(n)) and int(np.floor(np.log2(n))) for n >= 1: the greatest
\* k with 2^k <= n.
RECURSIVE FloorLog2From(_, _)
FloorLog2From(n, k) == IF Pow2(k + 1) > n THEN k ELSE FloorLog2From(n, k + 1)

FloorLog2(n) == FloorLog2From(n, 0)

\* e, with v evaluated first: a loop that carries v evaluates it turn by
\* turn, as the code does, and not nested as deep as the loop is long.
Now(v, e) == IF v = v THEN e ELSE e

Zeros(k) == [i \in 1..k |-> 0]

\* Canonical form: drop the leading bits that repeat the sign.
ZStrip(s, b) ==
  LET keep == {i \in 1..Len(b) : b[i] # s}
  IN  IF keep = {} THEN <<>>
      ELSE SubSeq(b, CHOOSE i \in keep : \A j \in keep : i <= j, Len(b))

ZNorm(s, b) == [s |-> s, b |-> ZStrip(s, b)]

\* Bit i of v (bit 0 is the least significant); beyond the string, the sign.
ZBit(v, i) == IF i < Len(v.b) THEN v.b[Len(v.b) - i] ELSE v.s

\* The binary digits of a natural number, most significant first.
RECURSIVE NatBits(_)
NatBits(n) == IF n = 0 THEN <<>> ELSE Append(NatBits(n \div 2), n % 2)

ZNat(n) == [s |-> 0, b |-> NatBits(n)]

ZZero == ZNat(0)

\* The integer -1: all bits set.
ZMinusOne == [s |-> 1, b |-> <<>>]

ZIsNeg(v) == v.s = 1

\* The value of a non-negative integer that fits the model checker's
\* integers.
RECURSIVE BitsNat(_)
BitsNat(b) ==
  IF b = <<>> THEN 0 ELSE 2 * BitsNat(SubSeq(b, 1, Len(b) - 1)) + b[Len(b)]

ZToNat(v) == BitsNat(v.b)

\* v << k on a Python int.
ZShl(v, k) == ZNorm(v.s, v.b \o Zeros(k))

\* v >> k: arithmetic shift (Python int, numpy and numba agree).
ZShr(v, k) ==
  IF k >= Len(v.b) THEN [s |-> v.s, b |-> <<>>]
  ELSE [s |-> v.s, b |-> SubSeq(v.b, 1, Len(v.b) - k)]

ZOr(v, w) ==
  LET n == Max(Len(v.b), Len(w.b))
  IN  ZNorm(Max(v.s, w.s),
            [i \in 1..n |-> Max(ZBit(v, n - i), ZBit(w, n - i))])

ZAnd(v, w) ==
  LET n == Max(Len(v.b), Len(w.b))
  IN  ZNorm(Min(v.s, w.s),
            [i \in 1..n |-> Min(ZBit(v, n - i), ZBit(w, n - i))])

\* Reduction to w-bit two's complement: what an int64 register keeps.  A
\* value of fewer than w bits is kept as it is.
ZWrap(v, w) ==
  IF Len(v.b) < w THEN v
  ELSE ZNorm(ZBit(v, w - 1), [i \in 1..(w - 1) |-> ZBit(v, w - 1 - i)])

\* Number of bits of the magnitude of a non-negative value
\* (int.bit_length()).
ZBitLength(v) == Len(v.b)

\* 0 <= v < 2^k
ZInRange(v, k) == v.s = 0 /\ Len(v.b) <= k

\* int64 arithmetic of numba and numpy: the exact result, wrapped.
Shl64(v, k) == ZWrap(ZShl(v, k), IntBits)

Or64(v, w) == ZWrap(ZOr(v, w), IntBits)

\* Reduction to w unsigned bits: what a numpy uint64 keeps.
ZWrapU(v, w) == ZNorm(0, [i \in 1..w |-> ZBit(v, w - i)])

\* The result of an operation in the type of its numpy operand: "int64"
\* and "uint64" wrap, a Python "int" is exact.
Wrap(kind, v) ==
  IF kind = "int64" THEN ZWrap(v, IntBits)
  ELSE IF kind = "uint64" THEN ZWrapU(v, IntBits)
  ELSE v

ShlT(kind, v, k) == Wrap(kind, ZShl(v, k))

OrT(kind, v, w) == Wrap(kind, ZOr(v, w))


\* ------------------------------------------------------------------------
\* Real numbers: exact rationals
\* ------------------------------------------------------------------------

\* A coefficient given in thousandths.
Real(c) == [n |-> c, d |-> 1]

\* sys.float_info.max, the value the code stores as the open upper
\* breakpoint; greater than every coefficient of the model.
FloatMax == [n |-> 1, d |-> 0]

\* a <= b
Leq(a, b) == a.n * b.d <= b.n * a.d

\* round(x * 100) / 100 of a coefficient x given in thousandths (Python
\* rounds halves to the even neighbour).
Round2(c) ==
  LET q == c \div 10
      r == c % 10
  IN  IF r < 5 THEN 10 * q
      ELSE IF r > 5 THEN 10 * (q + 1)
      ELSE IF q % 2 = 0 THEN 10 * q ELSE 10 * (q + 1)

\* np.sort of a sequence of integers.
RECURSIVE InsertSorted(_, _)
InsertSorted(s, x) ==
  IF s = <<>> THEN <<x>>
  ELSE IF x <= Head(s) THEN <<x>> \o s
  ELSE <<Head(s)>> \o InsertSorted(Tail(s), x)

RECURSIVE SortInts(_)
SortInts(s) ==
  IF s = <<>> THEN <<>> ELSE InsertSorted(SortInts(Tail(s)), Head(s))

\* np.sort(breakpoints, axis=1) of one row of reals.
RECURSIVE InsertSortedReal(_, _)
InsertSortedReal(s, x) ==
  IF s = <<>> THEN <<x>>
  ELSE IF Leq(x, Head(s)) THEN <<x>> \o s
  ELSE <<Head(s)>> \o InsertSortedReal(Tail(s), x)

RECURSIVE SortReals(_)
SortReals(s) ==
  IF s = <<>> THEN <<>> ELSE InsertSortedReal(SortReals(Tail(s)), Head(s))

\* math.ceil(a / b) for a >= 0, b > 0
CeilDiv(a, b) == (a + b - 1) \div b

\* ------------------------------------------------------------------------
\* Construction
\* ------------------------------------------------------------------------

\* The five names of binning_methods.
binning_methods ==
  {"equi-depth", "equi-width", "information-gain", "information-gain-mae",
   "kmeans"}

\* Python's None.
None == "None"

\* An n_jobs argument: its Python type and, for a number, its value.
NJobs(t, v) == [t |-> t, v |-> v]

\* 1.0 / math.sqrt(k), kept as the k it is the reciprocal root of (1.0 is
\* that of 1).
RecipSqrt(k) == [recip_sqrt_of |-> k]

\* SFA.__init__: the attributes of a new estimator.  p holds the
\* constructor's arguments; numba's JIT is taken to be enabled, so that
\* _typed_dict = typed_dict.  _n_jobs does not exist before fit.
SFA(p) ==
  LET offset == IF p.norm THEN 2 ELSE 0
      dl == IF p.anova THEN p.window_size - offset ELSE p.word_length
  IN  [ words |-> <<>>,
        breakpoints |-> <<>>,
        dft_length |-> dl + (dl % 2),
        support |-> [i \in 1..p.word_length |-> i - 1],
        word_length |-> p.word_length,
        alphabet_size |-> p.alphabet_size,
        window_size |-> p.window_size,
        norm |-> p.norm,
        lower_bounding |-> p.lower_bounding,
        lower_bounding_distances |-> p.lower_bounding_distances,
        inverse_sqrt_win_size |->
          IF ~p.lower_bounding \/ p.lower_bounding_distances
          THEN RecipSqrt(p.window_size) ELSE RecipSqrt(1),
        remove_repeat_words |-> p.remove_repeat_words,
        save_words |-> p.save_words,
        keep_binning_dft |-> p.keep_binning_dft,
        binning_dft |-> None,
        levels |-> p.levels,
        binning_method |-> p.binning_method,
        anova |-> p.anova,
        bigrams |-> p.bigrams,
        skip_grams |-> p.skip_grams,
        use_fallback_dft |-> p.use_fallback_dft,
        _use_fallback_dft |->
          IF p.word_length < p.window_size - offset
          THEN p.use_fallback_dft ELSE TRUE,
        typed_dict |-> p.typed_dict,
        _typed_dict |-> p.typed_dict,
        n_jobs |-> p.n_jobs,
        _n_jobs |-> None,
        n_cases |-> 0,
        n_timepoints |-> 0,
        letter_bits |-> 0,
        letter_max |-> 0,
        word_bits |-> 0,
        max_bits |-> 0,
        level_bits |-> 0,
        level_max |-> 0 ]

\* ------------------------------------------------------------------------
\* check_n_jobs
\* ------------------------------------------------------------------------

\* is_int: an int (or numpy integer) that is not a bool.
is_int(x) == x.t = "int"

\* n_jobs == 0 in Python: true of 0, 0.0 and False, of no string.
EqualsZero(x) == x.t \in {"int", "float", "bool"} /\ x.v = 0

\* A count of workers that is not kept above zero.
check_n_jobs_unbounded(n_jobs, cpu_count) ==
  IF n_jobs.t = "NoneType" \/ EqualsZero(n_jobs)
  THEN [raised |-> None, value |-> 1]
  ELSE IF ~is_int(n_jobs)
  THEN [raised |-> "ValueError", value |-> None]
  ELSE IF n_jobs.v < 0
  THEN [raised |-> None, value |-> cpu_count + 1 + n_jobs.v]
  ELSE [raised |-> None, value |-> n_jobs.v]

\* check_n_jobs: [raised, value].
check_n_jobs(n_jobs, cpu_count) ==
  IF n_jobs.t = "NoneType" \/ EqualsZero(n_jobs)
  THEN [raised |-> None, value |-> 1]
  ELSE IF ~is_int(n_jobs)
  THEN [raised |-> "ValueError", value |-> None]
  ELSE IF n_jobs.v < 0
  THEN [raised |-> None, value |-> Max(1, cpu_count + 1 + n_jobs.v)]
  ELSE [raised |-> None, value |-> n_jobs.v]

\* ------------------------------------------------------------------------
\* Binning (fit)
\* ------------------------------------------------------------------------
\* A series is [n |-> its length, dft |-> its coefficient rows], where
\* dft[w + 1] is the vector of Fourier coefficients (thousandths, after
\* the norm offset) of the window that starts at sample w.  The floating
\* point transform itself is not computed: the rows are input data, and
\* the three transforms of the code (_discrete_fourier_transform,
\* _fast_fourier_transform, _mft) are taken to return the same row for the
\* same window.

\* math.ceil(self.n_timepoints / self.window_size)
num_windows_per_inst(sf) == CeilDiv(sf.n_timepoints, sf.window_size)

\* np.linspace(start, stop, num, dtype=np.int_) on integers whose step is
\* an integer.
linspace(start, stop, num) ==
  [i \in 1..num |->
     IF num = 1 THEN start
     ELSE start + ((i - 1) * (stop - start)) \div (num - 1)]

\* np.split(series, points) of a series of n samples: the sample ranges
\* <<first, end>> (end exclusive) of the pieces, cut at the points and
\* clipped at n.
np_split(n, points) ==
  [j \in 1..(Len(points) + 1) |->
     << IF j = 1 THEN 0 ELSE Min(points[j - 1], n),
        IF j = Len(points) + 1 THEN n ELSE Min(points[j], n) >>]

\* series[start : stop] of n samples: a negative start counts from the
\* end.
SliceRange(n, start, stop) ==
  LET first == IF start < 0 THEN Max(start + n, 0) ELSE Min(start, n)
  IN  << first, Max(first, Min(stop, n)) >>

\* The sample ranges of the binning windows of a series (_binning_dft):
\* np.split at multiples of window_size, the last window replaced by
\* series[n_timepoints - window_size : n_timepoints].
BinningWindows(sf) ==
  LET k == num_windows_per_inst(sf)
      split == np_split(sf.n_timepoints,
                        linspace(sf.window_size, sf.window_size * (k - 1),
                                 k - 1))
  IN  [j \in 1..Len(split) |->
         IF j = Len(split)
         THEN SliceRange(sf.n_timepoints, sf.n_timepoints - sf.window_size,
                     sf.n_timepoints)
         ELSE split[j]]

\* The sample at which binning window j (0-based) of a series starts.
BinningStart(sf, j) == BinningWindows(sf)[j + 1][1]

\* np.repeat(y, k): each label k times.
np_repeat(y, k) == [r \in 1..(Len(y) * k) |-> y[((r - 1) \div k) + 1]]

\* _binning_dft: one row of dft_length coefficients per binning window.
_binning_dft(sf, series) ==
  [j \in 1..Len(BinningWindows(sf)) |->
     SubSeq(series.dft[BinningStart(sf, j - 1) + 1], 1, sf.dft_length)]

\* The rows of all series, in series order (np.array(...).reshape).
RECURSIVE Flatten(_)
Flatten(ss) == IF ss = <<>> THEN <<>> ELSE Head(ss) \o Flatten(Tail(ss))

\* breakpoints[:, alphabet_size - 1] = sys.float_info.max
SetLastColumn(sf, rows) ==
  [l \in 1..Len(rows) |->
     [bp \in 1..Len(rows[l]) |->
        IF bp = sf.alphabet_size THEN FloatMax ELSE rows[l][bp]]]

\* _mcb: equi-depth and equi-width breakpoints from the rounded, sorted
\* column of each letter.  The running float bin_index is (bp + 1) times
\* total_num_windows / alphabet_size, and int() truncates it.
_mcb(sf, dft) ==
  LET total_num_windows == sf.n_cases * num_windows_per_inst(sf)
      column(letter) ==
        SortInts([i \in 1..total_num_windows |-> Round2(dft[i][letter])])
      row(letter) ==
        LET col == column(letter)
        IN  [bp \in 1..sf.alphabet_size |->
               IF bp = sf.alphabet_size THEN Real(0)
               ELSE IF sf.binning_method = "equi-depth"
               THEN Real(col[((bp * total_num_windows)
                              \div sf.alphabet_size) + 1])
               ELSE IF sf.binning_method = "equi-width"
               THEN [n |-> bp * (col[Len(col)] - col[1])
                           + sf.alphabet_size * col[1],
                     d |-> sf.alphabet_size]
               ELSE Real(0)]
  IN  SetLastColumn(sf, [letter \in 1..sf.word_length |-> row(letter)])

\* _igb and _igb_mae: thresholds[i] is what the fitted tree of letter i
\* gives as tree_.threshold[children_left != -1] (sklearn decides it);
\* the unused slots get float max and each row is sorted.
_igb(sf, thresholds) ==
  [i \in 1..sf.word_length |->
     SortReals([bp \in 1..sf.alphabet_size |->
                  IF bp <= Len(thresholds[i]) THEN thresholds[i][bp]
                  ELSE FloatMax])]

\* _k_bins_discretizer: edges[letter] are the inner entries
\* breaks[letter][1 : -1] of KBinsDiscretizer's bin_edges_ (sklearn
\* decides them); they fill the row from the left, the other slots keep
\* the 0 of np.zeros, and the last column gets float max.
_k_bins_discretizer(sf, edges) ==
  SetLastColumn(sf,
    [letter \in 1..sf.word_length |->
       [bp \in 1..sf.alphabet_size |->
          IF bp <= Len(edges[letter]) THEN edges[letter][bp] ELSE Real(0)]])

\* The entries of a sequence.
Range(seq) == {seq[i] : i \in DOMAIN seq}

\* The columns (0-based) of the pooled rows whose variance is not close
\* to zero.  The coefficients of the model differ by far more than the
\* tolerance of np.isclose or not at all.
NonConstant(dft) ==
  {c \in 0..(Len(dft[1]) - 1) :
     \E i, j \in 1..Len(dft) : dft[i][c + 1] # dft[j][c + 1]}

\* non_constant[np.argsort(-f)]: f is the order of all columns by
\* descending F-score (sklearn's f_classif decides it).
Ranked(f, non_constant) == SelectSeq(f, LAMBDA c : c \in non_constant)

\* dft[:, self.support]
SelectColumns(dft, support) ==
  [r \in 1..Len(dft) |-> [i \in 1..Len(support) |-> dft[r][support[i] + 1]]]

\* The anova block of _binning: the support becomes the word_length
\* best-ranked non-constant columns when there are that many, the pooled
\* rows are cut to the support, and dft_length to the smallest even
\* number above the largest index of the support.
AnovaSelect(sf, dft, f) ==
  LET non_constant == NonConstant(dft)
      s1 == IF sf.word_length <= Cardinality(non_constant)
            THEN [sf EXCEPT !.support =
                    SubSeq(Ranked(f, non_constant), 1, sf.word_length)]
            ELSE sf
      top == CHOOSE m \in Range(s1.support) :
               \A o \in Range(s1.support) : o <= m
  IN  IF \E i \in 1..Len(s1.support) : s1.support[i] >= Len(dft[1])
      THEN [self |-> s1, dft |-> dft, raised |-> "IndexError"]
      ELSE [self |-> [s1 EXCEPT !.dft_length = top + 1 + ((top + 1) % 2)],
            dft |-> SelectColumns(dft, s1.support),
            raised |-> None]

\* _binning: the pooled coefficient rows and the breakpoints of the
\* configured method; keeps the per-series rows when keep_binning_dft is
\* set.  ext is what sklearn returns for each letter (the trees'
\* thresholds, or the discretizer's inner edges), f the order of the
\* columns by f_classif.
_binning(sf, X, y, ext, f) ==
  IF sf.window_size = 0
  THEN [self |-> sf, raised |-> "ZeroDivisionError"]
  ELSE
    LET per_case == [i \in 1..sf.n_cases |-> _binning_dft(sf, X[i])]
        s1 == IF sf.keep_binning_dft
              THEN [sf EXCEPT !.binning_dft = per_case] ELSE sf
        sel == IF sf.anova /\ y # None
               THEN AnovaSelect(s1, Flatten(per_case), f)
               ELSE [self |-> s1, dft |-> Flatten(per_case),
                     raised |-> None]
        s2 == sel.self
        bps == IF sf.binning_method \in
                    {"information-gain", "information-gain-mae"}
               THEN _igb(s2, ext)
               ELSE IF sf.binning_method = "kmeans"
               THEN _k_bins_discretizer(s2, ext)
               ELSE _mcb(s2, sel.dft)
    IN  IF sel.raised # None
        THEN [self |-> s2, raised |-> sel.raised]
        ELSE [self |-> [s2 EXCEPT !.breakpoints = bps], raised |-> None]

\* The number of pyramid quadrants of all levels: the sum of pow(2, i).
RECURSIVE Quadrants(_)
Quadrants(levels) ==
  IF levels = 0 THEN 0 ELSE Quadrants(levels - 1) + Pow2(levels - 1)

\* The bound of the typed dictionary on the number of levels.
MaxTypedLevels == 15

\* A bit budget checked for every dictionary.
BudgetExceededAnyDict(sf) == sf.max_bits > IntBits

\* The bit budget check of _fit: only a typed dictionary is limited to
\* 64-bit keys.
BudgetExceeded(sf) == sf._typed_dict /\ sf.max_bits > IntBits

\* SFA._fit: [self |-> the estimator after the call, raised |-> the
\* exception or None].  The statements run in the order of the source, so
\* an exception leaves what was assigned before it.
_fit(sf, X, y, cpu_count, ext, f) ==
  LET nj == check_n_jobs(sf.n_jobs, cpu_count)
      s1 == [sf EXCEPT !._n_jobs = nj.value]
      letter_bits == CeilLog2(s1.alphabet_size)
      word_bits == s1.word_length * letter_bits
      s2 == [s1 EXCEPT
               !.letter_bits = letter_bits,
               !.letter_max = Pow2(letter_bits) - 1,
               !.word_bits = word_bits,
               !.max_bits = IF s1.bigrams \/ s1.skip_grams
                            THEN word_bits * 2 ELSE word_bits]
      level_bits == CeilLog2(Quadrants(s2.levels))
      s3 == IF s2.levels > 1
            THEN [s2 EXCEPT !.level_bits = level_bits,
                            !.level_max = Pow2(level_bits) - 1]
            ELSE s2
      s4 == [s3 EXCEPT !.n_cases = Len(X), !.n_timepoints = X[1].n]
  IN  IF nj.raised # None
      THEN [self |-> sf, raised |-> nj.raised]
      ELSE IF s1.alphabet_size < 2
      THEN [self |-> s1, raised |-> "ValueError"]
      ELSE IF s1.word_length < 1
      THEN [self |-> s1, raised |-> "ValueError"]
      ELSE IF s1.binning_method \in
                {"information-gain", "information-gain-mae"} /\ y = None
      THEN [self |-> s1, raised |-> "ValueError"]
      ELSE IF s1.binning_method \notin binning_methods
      THEN [self |-> s1, raised |-> "TypeError"]
      ELSE IF BudgetExceeded(s2)
      THEN [self |-> s2, raised |-> "ValueError"]
      ELSE IF s2._typed_dict /\ s2.levels > MaxTypedLevels
      THEN [self |-> s2, raised |-> "ValueError"]
      ELSE _binning(s4, X, y, ext, f)

\* ------------------------------------------------------------------------
\* Words
\* ------------------------------------------------------------------------

\* The first bin bp (0-based) with x <= row[bp], or -1 when there is none
\* (the inner loop of _create_word ends without a break).
FirstBin(x, row, alphabet_size) ==
  LET fits == {bp \in 0..(alphabet_size - 1) : Leq(Real(x), row[bp + 1])}
  IN  IF fits = {} THEN -1
      ELSE CHOOSE bp \in fits : \A other \in fits : bp <= other

\* SFA._create_word (numba, int64): the turns i..j of the loop over the
\* letter positions, on the word built so far.  A turn appends the letter
\* of its position; a position without a bin appends nothing.  The turns
\* i..j are the turns i..m followed by the turns m+1..j.
RECURSIVE CreateWordFrom(_, _, _, _, _, _, _)
CreateWordFrom(word, i, j, dft, alphabet_size, breakpoints, letter_bits) ==
  IF i > j THEN word
  ELSE IF i = j
  THEN LET bp == FirstBin(dft[i], breakpoints[i], alphabet_size)
       IN  IF bp = -1 THEN word
           ELSE Or64(Shl64(word, letter_bits), ZNat(bp))
  ELSE LET m == (i + j) \div 2
           half == CreateWordFrom(word, i, m, dft, alphabet_size,
                                  breakpoints, letter_bits)
       IN  Now(half, CreateWordFrom(half, m + 1, j, dft, alphabet_size,
                                    breakpoints, letter_bits))

_create_word(dft, word_length, alphabet_size, breakpoints, letter_bits) ==
  CreateWordFrom(ZZero, 1, word_length, dft, alphabet_size, breakpoints,
                 letter_bits)

\* SFA._create_word_large (Python int): the same, without a width.
RECURSIVE CreateWordLargeFrom(_, _, _, _, _)
CreateWordLargeFrom(sf, word, i, j, dft) ==
  IF i > j THEN word
  ELSE IF i = j
  THEN LET bp == FirstBin(dft[i], sf.breakpoints[i], sf.alphabet_size)
       IN  IF bp = -1 THEN word
           ELSE ZOr(ZShl(word, sf.letter_bits), ZNat(bp))
  ELSE LET m == (i + j) \div 2
           half == CreateWordLargeFrom(sf, word, i, m, dft)
       IN  Now(half, CreateWordLargeFrom(sf, half, m + 1, j, dft))

_create_word_large(sf, dft) ==
  CreateWordLargeFrom(sf, ZZero, 1, sf.word_length, dft)

\* The word of one window, as _transform_case picks the path.
WordRaw(sf, dft) ==
  IF sf.word_bits <= IntBits
  THEN _create_word(dft, sf.word_length, sf.alphabet_size, sf.breakpoints,
                    sf.letter_bits)
  ELSE _create_word_large(sf, dft)

\* The bin indices of a window, one per letter position (-1: no bin).
Letters(sf, dft) ==
  [i \in 1..sf.word_length |->
     FirstBin(dft[i], sf.breakpoints[i], sf.alphabet_size)]

\* _get_chars (numba): the letters read back from a packed int64 word,
\* last letter first, each masked out of the low bits.
_get_chars(word, word_length, alphabet_size) ==
  LET letter_bits == FloorLog2(alphabet_size)
      mask == ZNat(Pow2(letter_bits) - 1)
  IN  [k \in 1..word_length |->
         ZToNat(ZAnd(ZShr(word, (word_length - k) * letter_bits), mask))]

\* SFA._shorten_words: the word cut to word_len letters; _shorten_word
\* (numba) and _shorten_word_large shift alike.
_shorten_words(sf, word, word_len) ==
  ZShr(word, (sf.word_length - word_len) * sf.letter_bits)

\* SFA._create_bigram_words(word_raw, word): the key of the earlier word
\* `word` and the current word `word_raw`.  With max_bits <= 64 numba's
\* _create_bigram_word computes in int64 and returns a Python int; else
\* _create_bigram_word_large computes `(word << word_bits) | word_raw` in
\* the type `kind` of `word`: a numpy scalar read from an array wraps and
\* stays a numpy scalar, a Python int is exact.  Gives the key and its
\* type.
_create_bigram_words(sf, word_raw, word, kind) ==
  IF sf.max_bits <= IntBits
  THEN [z |-> Or64(Shl64(word, sf.word_bits), word_raw), kind |-> "int"]
  ELSE [z |-> OrT(kind, ShlT(kind, word, sf.word_bits), word_raw),
        kind |-> kind]

\* ------------------------------------------------------------------------
\* Bags
\* ------------------------------------------------------------------------
\* A bag is a function from keys to counts.  A key is an integer or, in a
\* typed dictionary with levels > 1, a pair <<word, quadrant>>.

EmptyBag == [k \in {} |-> 0]

\* bag[key] = bag.get(key, 0) + inc
BagAdd(bag, key, inc) ==
  IF key \in DOMAIN bag THEN [bag EXCEPT ![key] = @ + inc]
  ELSE [k \in DOMAIN bag \cup {key} |-> IF k = key THEN inc ELSE bag[k]]

\* The sum of all counts of a bag.
RECURSIVE SumOver(_, _)
SumOver(bag, keys) ==
  IF keys = {} THEN 0
  ELSE LET k == CHOOSE x \in keys : TRUE
       IN  bag[k] + SumOver(bag, keys \ {k})

BagTotal(bag) == SumOver(bag, DOMAIN bag)

\* The bag key of an n-gram: with levels > 1 a typed dictionary pairs it
\* with -1, an untyped one shifts it by level_bits, in the n-gram's type
\* (`(bigram << self.level_bits) | 0`).
NgramKey(sf, g) ==
  IF sf.levels > 1
  THEN IF sf._typed_dict THEN <<g.z, -1>>
       ELSE OrT(g.kind, ShlT(g.kind, g.z, sf.level_bits), ZZero)
  ELSE g.z

\* SFA._add_level, _add_level_large and _add_level_typed: the key of
\* `word` at pyramid level `level` and the level's number of quadrants.
\* The quadrant width int(n_timepoints / num_quadrants) may be 0: the
\* division then raises.
QuadrantWidth(sf, level) == sf.n_timepoints \div Pow2(level)

Quadrant(sf, start, level, window_ind) ==
  start + ((window_ind + (sf.window_size \div 2))
           \div QuadrantWidth(sf, level))

_add_level(sf, word, kind, start, level, window_ind) ==
  LET quadrant == ZNat(Quadrant(sf, start, level, window_ind))
  IN  IF sf._typed_dict
      THEN <<word, Quadrant(sf, start, level, window_ind)>>
      ELSE IF sf.word_bits + sf.level_bits <= IntBits
      THEN Or64(Shl64(word, sf.level_bits), quadrant)
      ELSE OrT(kind, ShlT(kind, word, sf.level_bits), quadrant)

\* The loop of _add_to_pyramid over the levels i..levels-1.
RECURSIVE AddLevelsFrom(_, _, _, _, _, _, _)
AddLevelsFrom(sf, bag, word, kind, start, i, window_ind) ==
  IF i >= sf.levels THEN [bag |-> bag, raised |-> None]
  ELSE IF QuadrantWidth(sf, i) = 0
  THEN [bag |-> bag, raised |-> "ZeroDivisionError"]
  ELSE AddLevelsFrom(sf,
         BagAdd(bag, _add_level(sf, word, kind, start, i, window_ind),
                Pow2(i)),
         word, kind, start + Pow2(i), i + 1, window_ind)

\* SFA._add_to_pyramid: [bag, repeat (the returned flag), raised].  kind
\* is the type of `word`.
_add_to_pyramid(sf, bag, word, kind, last_word, window_ind) ==
  IF sf.remove_repeat_words /\ word = last_word
  THEN [bag |-> bag, repeat |-> TRUE, raised |-> None]
  ELSE LET r == AddLevelsFrom(sf, bag, word, kind, 0, 0, window_ind)
       IN  [bag |-> r.bag, repeat |-> FALSE, raised |-> r.raised]

\* SFA._add_to_bag: [bag, repeat (the returned flag), raised].
_add_to_bag(sf, bag, word, last_word) ==
  IF sf.remove_repeat_words /\ word = last_word
  THEN [bag |-> bag, repeat |-> TRUE, raised |-> None]
  ELSE [bag |-> BagAdd(bag, word, 1), repeat |-> FALSE, raised |-> None]

\* ------------------------------------------------------------------------
\* The per-series tasks
\* ------------------------------------------------------------------------

\* SFA._mft: the coefficient rows of all sliding windows of a series,
\* end = max(1, n - window_size + 1) of them, each cut to dft_length
\* columns (and to the support with anova).  Without the fallback
\* transform the first window goes through np.fft.rfft, which gives
\* min(n, window_size) // 2 + 1 coefficients: fewer than the length / 2
\* that are copied (and more than the one that numpy would broadcast)
\* raise a ValueError.
_mft(sf, series) ==
  LET start_offset == IF sf.norm THEN 2 ELSE 0
      length == sf.dft_length + start_offset + (sf.dft_length % 2)
      end == Max(1, series.n - sf.window_size + 1)
      n_rfft == (Min(series.n, sf.window_size) \div 2) + 1
      row(w) == SubSeq(series.dft[w], 1, length - start_offset)
  IN  IF ~sf._use_fallback_dft /\ n_rfft < length \div 2 /\ n_rfft # 1
      THEN [dfts |-> <<>>, raised |-> "ValueError"]
      ELSE [dfts |-> [w \in 1..end |->
                        IF sf.anova
                        THEN [i \in 1..Len(sf.support) |->
                                row(w)[sf.support[i] + 1]]
                        ELSE row(w)],
            raised |-> None]

\* The offsets, in windows, of the n-grams: window_size for bigrams, twice
\* and three times window_size for skip-grams.
NgramOffsets(sf) ==
  (IF sf.bigrams THEN <<sf.window_size>> ELSE <<>>)
    \o (IF sf.skip_grams THEN <<2 * sf.window_size, 3 * sf.window_size>>
        ELSE <<>>)

\* The offsets as a set.
OffsetSet(sf) == {NgramOffsets(sf)[k] : k \in 1..Len(NgramOffsets(sf))}

\* The n-grams of a window added only when the window lies beyond the
\* offset (window - o > 0).
RECURSIVE AddNgramsBeyond(_, _, _, _, _, _, _)
AddNgramsBeyond(sf, bag, offsets, window, word, earlier, kind) ==
  IF offsets = <<>> THEN bag
  ELSE
    LET o == Head(offsets)
        g == _create_bigram_words(sf, word, earlier[o], kind)
    IN  AddNgramsBeyond(sf,
          IF window - o > 0 THEN BagAdd(bag, NgramKey(sf, g), 1) ELSE bag,
          Tail(offsets), window, word, earlier, kind)

\* The n-grams of the window `window` (0-based) added to the bag:
\* earlier[o] is the word `o` windows earlier as the caller reads it.
RECURSIVE AddNgrams(_, _, _, _, _, _, _)
AddNgrams(sf, bag, offsets, window, word, earlier, kind) ==
  IF offsets = <<>> THEN bag
  ELSE
    LET o == Head(offsets)
        g == _create_bigram_words(sf, word, earlier[o], kind)
    IN  AddNgrams(sf,
          IF window - o >= 0 THEN BagAdd(bag, NgramKey(sf, g), 1) ELSE bag,
          Tail(offsets), window, word, earlier, kind)

\* The state of the window loop of _transform_case and _shorten_case
\* before the first window.
LoopStart ==
  [bag |-> EmptyBag, last_word |-> ZMinusOne, repeat_words |-> 0,
   words |-> <<>>, raised |-> None]

\* One turn of the loop of _transform_case, on window `window` (0-based).
\* word_raw is a Python int (numba returns one).  The earlier word of an
\* n-gram is read from `words`: an int64 array when word_bits <= 64, a
\* list of Python ints otherwise.
TransformWindow(sf, acc, window, dft) ==
  LET word_raw == WordRaw(sf, dft)
      words == Append(acc.words, word_raw)
      r == IF sf.levels > 1
           THEN _add_to_pyramid(sf, acc.bag, word_raw, "int", acc.last_word,
                                window - (acc.repeat_words \div 2))
           ELSE _add_to_bag(sf, acc.bag, word_raw, acc.last_word)
      earlier == [o \in OffsetSet(sf) |->
                    IF window - o >= 0 THEN words[window - o + 1] ELSE ZZero]
  IN  [bag |-> AddNgrams(sf, r.bag, NgramOffsets(sf), window, word_raw,
                         earlier,
                         IF sf.word_bits <= IntBits THEN "int64" ELSE "int"),
       last_word |-> IF r.repeat THEN acc.last_word ELSE word_raw,
       repeat_words |-> IF r.repeat THEN acc.repeat_words + 1 ELSE 0,
       words |-> words,
       raised |-> r.raised]

RECURSIVE TransformLoop(_, _, _, _)
TransformLoop(sf, acc, window, dfts) ==
  IF window >= Len(dfts) \/ acc.raised # None THEN acc
  ELSE TransformLoop(sf, TransformWindow(sf, acc, window, dfts[window + 1]),
                     window + 1, dfts)

\* The argument supplied_dft: None, or rows kept by fit.
NoDft == [is_none |-> TRUE, dfts |-> <<>>]

GivenDft(rows) == [is_none |-> FALSE, dfts |-> rows]

\* SFA._transform_case: [bag, words, raised].
_transform_case(sf, X, supplied_dft) ==
  LET m == IF supplied_dft.is_none THEN _mft(sf, X)
           ELSE [dfts |-> supplied_dft.dfts, raised |-> None]
      acc == TransformLoop(sf, LoopStart, 0, m.dfts)
  IN  IF m.raised # None
      THEN [bag |-> EmptyBag, words |-> <<>>, raised |-> m.raised]
      ELSE [bag |-> acc.bag,
            words |-> IF sf.save_words THEN acc.words ELSE <<>>,
            raised |-> acc.raised]

\* The dtype of np.array(list(words)): int64 if every word fits, uint64
\* if every word fits that, else object (Python ints).
Dtype(words) ==
  LET all == {words[i][w] : i \in 1..Len(words), w \in 1..Len(words[1])}
  IN  IF \A v \in all : ZWrap(v, IntBits) = v THEN "int64"
      ELSE IF \A v \in all : ZInRange(v, IntBits) THEN "uint64"
      ELSE "object"

\* The type of a shortened word: numba's _shorten_word (word_bits <= 64)
\* returns a Python int; _shorten_word_large shifts the element of
\* self.words in its own type.
ShortenedKind(sf) ==
  IF sf.word_bits <= IntBits \/ Dtype(sf.words) = "object" THEN "int"
  ELSE Dtype(sf.words)

\* One turn of the loop of _shorten_case.  The earlier word of an n-gram
\* is shortened again from self.words.
ShortenWindow(sf, acc, window, saved, word_len) ==
  LET new_word == _shorten_words(sf, saved[window + 1], word_len)
      r == IF sf.levels > 1
           THEN _add_to_pyramid(sf, acc.bag, new_word, ShortenedKind(sf),
                                acc.last_word,
                                window - (acc.repeat_words \div 2))
           ELSE _add_to_bag(sf, acc.bag, new_word, acc.last_word)
      earlier == [o \in OffsetSet(sf) |->
                    IF window - o >= 0
                    THEN _shorten_words(sf, saved[window - o + 1], word_len)
                    ELSE ZZero]
  IN  [bag |-> AddNgrams(sf, r.bag, NgramOffsets(sf), window, new_word,
                         earlier, ShortenedKind(sf)),
       last_word |-> IF r.repeat THEN acc.last_word ELSE new_word,
       repeat_words |-> IF r.repeat THEN acc.repeat_words + 1 ELSE 0,
       words |-> acc.words,
       raised |-> r.raised]

RECURSIVE ShortenLoop(_, _, _, _, _)
ShortenLoop(sf, acc, window, saved, word_len) ==
  IF window >= Len(saved) \/ acc.raised # None THEN acc
  ELSE ShortenLoop(sf, ShortenWindow(sf, acc, window, saved, word_len),
                   window + 1, saved, word_len)

\* SFA._shorten_case: [bag, words, raised] for series i of self.words.
_shorten_case(sf, word_len, i) ==
  LET acc == ShortenLoop(sf, LoopStart, 0, sf.words[i], word_len)
  IN  [bag |-> acc.bag, words |-> <<>>, raised |-> acc.raised]

\* ------------------------------------------------------------------------
\* The estimator as a state machine
\* ------------------------------------------------------------------------

VARIABLES
  self,     \* the estimator's attributes
  env,      \* the caller's data: X, y (None or "labels") and cpu_count of
            \* fit, what sklearn may return, and the pools the later
            \* calls draw their arguments from
  phase,    \* "new", "fitted" or "fit_raised"
  call,     \* the parallel call in progress (op = "idle" when none is)
  task,     \* per task of the call: "pending", "running", "done", "raised"
  result,   \* per task: what it returned
  order,    \* the tasks of the last parallel call, in the order they
            \* completed
  out,      \* what the last call returned or raised
  saved,    \* the collection X that self.words holds the words of
  drawn,    \* what sklearn returned to fit for the letters
  ggs       \* a run of GreedyGaussianSegmenter._predict: the attributes
            \* of its _GGS, the locals of find_change_points and of
            \* adjust_change_points, and the position in them

vars ==
  <<self, env, phase, call, task, result, order, out, saved, drawn, ggs>>

\* No segmenter.
NoGGS == [pc |-> "none"]

\* A call: its name and its arguments (X of transform, word_len of
\* _shorten_bags).
Call(op, X, word_len) == [op |-> op, X |-> X, word_len |-> word_len]

Idle == Call("idle", <<>>, 0)

\* What a call hands back: the call, the exception raised (or None) and
\* the value returned.
Returned(c, value) == [call |-> c, raised |-> None, value |-> value]

Raised(c, exc) == [call |-> c, raised |-> exc, value |-> None]

\* Nothing is handed back while a call is in progress.
NoOutcome == Returned(Idle, None)

NoResult == [bag |-> EmptyBag, words |-> <<>>, raised |-> None]

\* fit(X, y): SFA._fit as one step.  The thresholds and edges that sklearn
\* returns for the letters are drawn from env.sklearn.
Fit ==
  /\ phase = "new"
  /\ call = Idle
  /\ \E ext \in env.sklearn, f \in env.f_classif :
       LET r == _fit(self, env.X, env.y, env.cpu_count, ext, f)
       IN  /\ self' = r.self
           /\ drawn' = ext
           /\ phase' = IF r.raised = None THEN "fitted" ELSE "fit_raised"
           /\ out' = IF r.raised = None
                     THEN Returned(Call("fit", env.X, 0), None)
                     ELSE Raised(Call("fit", env.X, 0), r.raised)
  /\ UNCHANGED <<env, call, task, result, order, saved, ggs>>

\* A gathering that hands the results over as the tasks complete.
GatherAsCompleted(results, completed) ==
  [k \in 1..Len(completed) |-> results[completed[k]]]

\* The list that joblib's Parallel returns: the results by task index,
\* whatever the order of completion.
Gather(results, completed) == [i \in 1..Len(results) |-> results[i]]

\* supplied_dft of task i: self.binning_dft[i] if keep_binning_dft.
SuppliedDft(sf, i) ==
  IF sf.keep_binning_dft THEN GivenDft(sf.binning_dft[i]) ELSE NoDft

\* transform(X): SFA._transform up to the dispatch of its tasks.  The
\* task arguments are built first; binning_dft[i] beyond the fitted cases
\* raises an IndexError.
BeginTransform ==
  /\ phase = "fitted"
  /\ call = Idle
  /\ \E X \in env.transform_pool :
       IF self.keep_binning_dft /\ Len(X) > Len(self.binning_dft)
       THEN /\ out' = Raised(Call("transform", X, 0), "IndexError")
            /\ UNCHANGED <<call, task, result, order, drawn, ggs>>
       ELSE /\ call' = Call("transform", X, 0)
            /\ task' = [i \in 1..Len(X) |-> "pending"]
            /\ result' = [i \in 1..Len(X) |-> NoResult]
            /\ order' = <<>>
            /\ out' = NoOutcome
  /\ UNCHANGED <<self, env, phase, saved, drawn, ggs>>

\* The test made only for a typed dictionary.
WordsNotSavedTyped(sf) == sf.save_words = FALSE /\ sf._typed_dict

\* if self.save_words is False: raise ValueError
WordsNotSaved(sf) == sf.save_words = FALSE

\* A clamp that lands one letter short.
ClampWordLenShort(sf, word_len) ==
  IF word_len > sf.word_length THEN sf.word_length - 1 ELSE word_len

\* if word_len > self.word_length: word_len = self.word_length
ClampWordLen(sf, word_len) ==
  IF word_len > sf.word_length THEN sf.word_length ELSE word_len

\* _shorten_bags(word_len) up to the dispatch of its tasks: raises without
\* save_words; the tasks get word_len clamped to word_length.
BeginShorten ==
  /\ phase = "fitted"
  /\ call = Idle
  /\ \E word_len \in env.shorten_pool :
       IF WordsNotSaved(self)
       THEN /\ out' = Raised(Call("shorten", <<>>, word_len), "ValueError")
            /\ UNCHANGED <<call, task, result, order, drawn, ggs>>
       ELSE /\ call' = Call("shorten", <<>>, word_len)
            /\ task' = [i \in 1..Len(self.words) |-> "pending"]
            /\ result' = [i \in 1..Len(self.words) |-> NoResult]
            /\ order' = <<>>
            /\ out' = NoOutcome
  /\ UNCHANGED <<self, env, phase, saved, drawn, ggs>>

Running == {i \in DOMAIN task : task[i] = "running"}

\* A worker takes a pending task: at most _n_jobs run at a time.
StartTask(i) ==
  /\ call # Idle
  /\ task[i] = "pending"
  /\ Cardinality(Running) < self._n_jobs
  /\ task' = [task EXCEPT ![i] = "running"]
  /\ UNCHANGED <<self, env, phase, call, result, order, out, saved, drawn, ggs>>

\* What task i of the call computes.
TaskResult(sf, c, i) ==
  IF c.op = "transform"
  THEN _transform_case(sf, c.X[i], SuppliedDft(sf, i))
  ELSE _shorten_case(sf, ClampWordLen(sf, c.word_len), i)

\* A running task ends: it returns its result or raises.
FinishTask(i) ==
  /\ call # Idle
  /\ task[i] = "running"
  /\ LET r == TaskResult(self, call, i)
     IN  /\ task' = [task EXCEPT ![i] = IF r.raised = None THEN "done"
                                        ELSE "raised"]
         /\ result' = [result EXCEPT ![i] = r]
  /\ order' = Append(order, i)
  /\ UNCHANGED <<self, env, phase, call, out, saved, drawn, ggs>>

\* The bags of a call, one per task, as `bags[0] = list(dim)`.
BagsOf(transform) == [i \in 1..Len(transform) |-> transform[i].bag]

WordsOf(transform) == [i \in 1..Len(transform) |-> transform[i].words]

\* Keeping the words and recomputing max_bits as for n-grams.
SaveWordsAndWiden(sf, words) ==
  [sf EXCEPT !.words = words, !.max_bits = 2 * sf.word_bits]

\* self.words = np.array(list(words))
SaveWords(sf, words) == [sf EXCEPT !.words = words]

\* All tasks are done: the call returns its bags; transform keeps the
\* words when save_words is set.
EndCall ==
  /\ call # Idle
  /\ \A i \in DOMAIN task : task[i] = "done"
  /\ LET transform == Gather(result, order)
     IN  /\ out' = Returned(call, BagsOf(transform))
         /\ self' = IF call.op = "transform" /\ self.save_words
                    THEN SaveWords(self, WordsOf(transform))
                    ELSE self
  /\ saved' = IF call.op = "transform" /\ self.save_words THEN call.X
              ELSE saved
  /\ call' = Idle
  /\ task' = <<>>
  /\ result' = <<>>
  /\ UNCHANGED <<env, phase, order, drawn, ggs>>

\* A task raised: Parallel re-raises its exception in the caller, and the
\* call returns nothing.
RaiseCall ==
  /\ call # Idle
  /\ \E i \in DOMAIN task : /\ task[i] = "raised"
                            /\ out' = Raised(call, result[i].raised)
  /\ call' = Idle
  /\ task' = <<>>
  /\ result' = <<>>
  /\ UNCHANGED <<self, env, phase, order, saved, drawn, ggs>>

\* get_words(): np.squeeze(self.words) is iterated word by word only when
\* it has one dimension (one series of several windows, or several series
\* of one window each): a single word is not iterable, and a row of words
\* is no argument for _get_chars, which numba compiles for an int64 word
\* (an empty list of words gives an empty result).
GetWords ==
  /\ phase = "fitted"
  /\ call = Idle
  /\ LET n_series == Len(self.words)
         n_windows == IF n_series = 0 THEN 0 ELSE Len(self.words[1])
         flat == Flatten(self.words)
     IN  out' =
           IF n_series = 0 THEN Returned(Call("get_words", <<>>, 0), <<>>)
           ELSE IF n_series = 1 /\ n_windows = 1
           THEN Raised(Call("get_words", <<>>, 0), "TypeError")
           ELSE IF (n_series > 1 /\ n_windows > 1)
                   \/ Dtype(self.words) # "int64"
           THEN Raised(Call("get_words", <<>>, 0), "TypingError")
           ELSE Returned(Call("get_words", <<>>, 0),
                  [k \in 1..Len(flat) |->
                     _get_chars(flat[k], self.word_length,
                                self.alphabet_size)])
  /\ UNCHANGED <<self, env, phase, call, task, result, order, saved, drawn, ggs>>

\* SFA._create_word_full (numba): the bin index of every letter position
\* in an array of zeros; a position without a bin keeps its 0.
_create_word_full(dft, word_length, alphabet_size, breakpoints) ==
  [i \in 1..word_length |->
     Max(FirstBin(dft[i], breakpoints[i], alphabet_size), 0)]

\* SFA._transform_words_case: the letters of every window and the
\* coefficient rows: [words, dfts, raised].
_transform_words_case(sf, X) ==
  LET m == _mft(sf, X)
  IN  [words |-> [w \in 1..Len(m.dfts) |->
                    _create_word_full(m.dfts[w], sf.word_length,
                                      sf.alphabet_size, sf.breakpoints)],
       dfts |-> m.dfts,
       raised |-> m.raised]

\* np.squeeze of an array of one to three dimensions, given as nested
\* sequences: the axes of length 1 are dropped.
Squeeze1(v) == IF Len(v) = 1 THEN v[1] ELSE v

Squeeze2(m) ==
  IF Len(m) = 1 THEN Squeeze1(m[1])
  ELSE IF Len(m[1]) = 1 THEN [i \in 1..Len(m) |-> m[i][1]]
  ELSE m

Squeeze3(a) ==
  IF Len(a) = 1 THEN Squeeze2(a[1])
  ELSE IF Len(a[1]) = 1 THEN Squeeze2([i \in 1..Len(a) |-> a[i][1]])
  ELSE IF Len(a[1][1]) = 1
  THEN [i \in 1..Len(a) |-> [w \in 1..Len(a[i]) |-> a[i][w][1]]]
  ELSE a

\* The first task that raised, if any: Parallel re-raises it.
FirstRaised(results) ==
  LET bad == {i \in 1..Len(results) : results[i].raised # None}
  IN  IF bad = {} THEN None
      ELSE results[CHOOSE i \in bad : \A j \in bad : i <= j].raised

\* transform_words(X): the letters and the coefficient rows of every
\* window of every series, each squeezed.  It assigns nothing.
TransformWords ==
  /\ phase = "fitted"
  /\ call = Idle
  /\ \E X \in env.transform_pool :
       LET transform == [i \in 1..Len(X) |->
                           _transform_words_case(self, X[i])]
           c == Call("transform_words", X, 0)
       IN  out' =
             IF FirstRaised(transform) # None
             THEN Raised(c, FirstRaised(transform))
             ELSE Returned(c,
                    [words |-> Squeeze3([i \in 1..Len(X) |->
                                           transform[i].words]),
                     dfts |-> Squeeze3([i \in 1..Len(X) |->
                                          transform[i].dfts])])
  /\ UNCHANGED <<self, env, phase, call, task, result, order, saved, drawn, ggs>>

\* transform_mft(X), X being the two-dimensional array of the series:
\* list(zip(*transform))[0] pairs the rows of the series window by window
\* and keeps the first pairing, the first window's row of every series.
\* It assigns nothing.
TransformMft ==
  /\ phase = "fitted"
  /\ call = Idle
  /\ \E X \in env.transform_pool :
       LET transform == [i \in 1..Len(X) |-> _mft(self, X[i])]
           c == Call("transform_mft", X, 0)
       IN  out' =
             IF FirstRaised(transform) # None
             THEN Raised(c, FirstRaised(transform))
             ELSE Returned(c, [i \in 1..Len(X) |-> transform[i].dfts[1]])
  /\ UNCHANGED <<self, env, phase, call, task, result, order, saved, drawn, ggs>>

Next ==
  \/ Fit
  \/ BeginTransform
  \/ BeginShorten
  \/ \E i \in DOMAIN task : StartTask(i)
  \/ \E i \in DOMAIN task : FinishTask(i)
  \/ EndCall
  \/ RaiseCall
  \/ GetWords
  \/ TransformWords
  \/ TransformMft

\* ------------------------------------------------------------------------
\* Configurations and data
\* ------------------------------------------------------------------------

\* The most sliding windows of a series passed to transform.
MaxWindows == 4

\* The most processors of the machine (os.cpu_count()).
MaxCpu == 2

\* Coefficient values, in thousandths: low, middle, high, very high.
CoefValues == <<-1004, 255, 1006, 2000>>

Lo == CoefValues[1]

Mid == CoefValues[2]

Hi == CoefValues[3]

VHi == CoefValues[4]

\* A coefficient row of a window: its first coefficient and the value of
\* all the others.
Row(pat, len) == [i \in 1..len |-> IF i = 1 THEN pat[1] ELSE pat[2]]

\* A series of n samples with the given sliding-window rows.
Series(n, pats, len) ==
  [n |-> n, dft |-> [w \in 1..Len(pats) |-> Row(pats[w], len)]]

\* The constructor's defaults (SFA.__init__), save for n_jobs.  The None
\* of lower_bounding_distances is the False it counts as where it is read.
Defaults ==
  [ word_length |-> 8, alphabet_size |-> 4, window_size |-> 12,
    norm |-> FALSE, binning_method |-> "equi-depth", anova |-> FALSE,
    bigrams |-> FALSE, skip_grams |-> FALSE, remove_repeat_words |-> FALSE,
    levels |-> 1, save_words |-> FALSE, keep_binning_dft |-> FALSE,
    lower_bounding |-> TRUE, lower_bounding_distances |-> FALSE,
    use_fallback_dft |-> FALSE, typed_dict |-> FALSE,
    n_jobs |-> NJobs("int", 1) ]

\* Word length, alphabet size and window size.
Shape(p, word_length, alphabet_size, window_size) ==
  [p EXCEPT !.word_length = word_length, !.alphabet_size = alphabet_size,
            !.window_size = window_size]

\* The bag options.
Options(p, bigrams, skip_grams, remove_repeat_words, levels, typed_dict) ==
  [p EXCEPT !.bigrams = bigrams, !.skip_grams = skip_grams,
            !.remove_repeat_words = remove_repeat_words,
            !.levels = levels, !.typed_dict = typed_dict]

\* The length of the coefficient rows a configuration reads.
RowLen(p) == Max(SFA(p).dft_length, 0)

\* A series of window_size + k - 1 samples: k sliding windows.
Sliding(p, pats) == Series(Len(pats) + p.window_size - 1, pats, RowLen(p))

\* A series of n samples, fewer than the window: _mft still gives one row.
Short(p, pat, n) == Series(n, <<pat>>, RowLen(p))

\* The training collection: two series of window_size + 2 samples.
TrainX(p) ==
  << Sliding(p, << <<Lo, Lo>>, <<Mid, Mid>>, <<Hi, Hi>> >>),
     Sliding(p, << <<Hi, Hi>>, <<Lo, Lo>>, <<Mid, Mid>> >>) >>

ConstPats(a, k) == [w \in 1..k |-> a]

StepPats(a, b, k) == [w \in 1..k |-> IF w = 1 THEN a ELSE b]

AltPats(a, b, k) == [w \in 1..k |-> IF w % 2 = 1 THEN a ELSE b]

RunPats(a, b, k) == [w \in 1..k |-> IF w <= 2 THEN a ELSE b]

TailPats(a, b, k) == [w \in 1..k |-> IF w < k THEN a ELSE b]

\* The collections that transform is called with: a constant series, a
\* series of two runs, a series whose last window ends a long run, a
\* series that alternates, two series at once and, for a window of several
\* samples, a series shorter than the window.
TransformPool(p) ==
  { << Sliding(p, ConstPats(<<VHi, VHi>>, MaxWindows)) >>,
    << Sliding(p, RunPats(<<Lo, Hi>>, <<Hi, Lo>>, MaxWindows)) >>,
    << Sliding(p, TailPats(<<Lo, Lo>>, <<Hi, Hi>>, MaxWindows)) >>,
    << Sliding(p, AltPats(<<Hi, Mid>>, <<VHi, Lo>>, MaxWindows - 1)) >>,
    << Sliding(p, StepPats(<<Hi, Lo>>, <<Lo, Lo>>, MaxWindows - 1)),
       Sliding(p, AltPats(<<Lo, Lo>>, <<Hi, VHi>>, MaxWindows - 1)) >> }
  \cup (IF p.window_size >= 2
        THEN { << Short(p, <<Hi, Lo>>, Min(p.window_size - 1, 2)) >> }
        ELSE {})

\* The word lengths that _shorten_bags is called with.
ShortenPool(p) ==
  {l \in {1, p.word_length - 1, p.word_length, p.word_length + 1} : l >= 1}

\* The binning methods that call sklearn.
SklearnMethods == {"information-gain", "information-gain-mae", "kmeans"}

\* What sklearn may return for one letter: up to alphabet_size - 1
\* thresholds.  A tree's come in node order; a discretizer's inner edges
\* ascend.
LetterOutcomes(p) ==
  LET most == IF p.binning_method = "kmeans" THEN p.alphabet_size - 1
              ELSE Min(p.alphabet_size - 1,
                       Pow2(FloorLog2(p.alphabet_size)) - 1)
      all == { <<>>, <<Real(Mid)>>, <<Real(Lo), Real(Hi)>>,
               <<Real(Hi), Real(Lo)>>, <<Real(Lo), Real(Mid), Real(Hi)>>,
               <<Real(Mid), Real(Lo), Real(Hi)>> }
      ascending(s) == \A i \in 1..(Len(s) - 1) : s[i].n < s[i + 1].n
  IN  {s \in all : /\ Len(s) <= most
                   /\ p.binning_method = "kmeans" => ascending(s)}

\* What sklearn may return for the letters: any outcome per letter for
\* short words, and the same outcome for all letters of long ones.
SklearnPool(p) ==
  IF p.binning_method \in SklearnMethods /\ p.word_length >= 1 /\ p.alphabet_size >= 2
  THEN IF p.word_length <= 2 THEN [1..p.word_length -> LetterOutcomes(p)]
       ELSE {[i \in 1..p.word_length |-> o] : o \in LetterOutcomes(p)}
  ELSE { <<>> }

\* The orders f_classif may give to the columns of the pooled rows: any
\* permutation of them.
FClassifPool(p) ==
  IF p.anova
  THEN {f \in [1..RowLen(p) -> 0..(RowLen(p) - 1)] :
          \A i, j \in 1..RowLen(p) : f[i] = f[j] => i = j}
  ELSE { <<>> }

Env(p, y, cpu_count, transform_pool, shorten_pool) ==
  [ X |-> TrainX(p), y |-> y, cpu_count |-> cpu_count,
    sklearn |-> SklearnPool(p),
    f_classif |-> FClassifPool(p),
    transform_pool |-> transform_pool,
    shorten_pool |-> shorten_pool ]

\* The state after SFA(**p), with the data of the caller.
Estimator(p, e) ==
  /\ self = SFA(p)
  /\ env = e
  /\ phase = "new"
  /\ call = Idle
  /\ task = <<>>
  /\ result = <<>>
  /\ order = <<>>
  /\ out = Returned(Call("__init__", <<>>, 0), None)
  /\ saved = <<>>
  /\ drawn = <<>>

\* The state after SFA(**p): there is no segmenter.
Constructed(p, e) == Estimator(p, e) /\ ggs = NoGGS

\* Small words: every combination of the bag options on two shapes, and
\* single variations of the other arguments.
SmallShapes == { <<2, 2, 1>>, <<2, 4, 2>> }

SmallConfigs ==
  { [Options(Shape(Defaults, sh[1], sh[2], sh[3]), b, s, r, l, t)
       EXCEPT !.save_words = TRUE, !.n_jobs = NJobs("int", 2)] :
      sh \in SmallShapes, b \in BOOLEAN, s \in BOOLEAN, r \in BOOLEAN,
      l \in {1, 2}, t \in BOOLEAN }

Base == [Shape(Defaults, 2, 2, 1) EXCEPT !.save_words = TRUE]

VariedConfigs ==
  { [Base EXCEPT !.keep_binning_dft = TRUE],
    [Base EXCEPT !.keep_binning_dft = TRUE, !.remove_repeat_words = TRUE],
    [Base EXCEPT !.save_words = FALSE],
    [Base EXCEPT !.n_jobs = NJobs("NoneType", 0)],
    [Base EXCEPT !.n_jobs = NJobs("int", -1)],
    Shape(Base, 2, 3, 1),
    [Shape(Base, 2, 3, 1) EXCEPT !.bigrams = TRUE],
    [Shape(Base, 6, 2, 7) EXCEPT !.use_fallback_dft = FALSE],
    [Shape(Base, 6, 2, 7) EXCEPT !.use_fallback_dft = TRUE] }

Init ==
  \E p \in SmallConfigs \cup VariedConfigs, cpu_count \in 1..MaxCpu :
    /\ p.n_jobs.v >= 0 => cpu_count = MaxCpu
    /\ Constructed(p, Env(p, None, cpu_count, TransformPool(p),
                          ShortenPool(p)))

Spec == Init /\ [][Next]_vars


\* Wide words: 40 bits (two words exceed 64 bits), 64 bits (the register)
\* and 68 bits (beyond it), with the bag options; and a pyramid deeper
\* than the training series allows.
WideShapes == { <<10, 16, 1>>, <<16, 16, 1>>, <<17, 16, 1>> }

WideConfigs ==
  { [Options(Shape(Defaults, sh[1], sh[2], sh[3]), b, FALSE, r, l, t)
       EXCEPT !.save_words = TRUE] :
      sh \in WideShapes, b \in BOOLEAN, r \in BOOLEAN, l \in {1, 2},
      t \in BOOLEAN }
  \cup { [Shape(Base, 10, 16, 1) EXCEPT !.levels = 3] }

InitWide ==
  \E p \in WideConfigs :
    Constructed(p, Env(p, None, MaxCpu, TransformPool(p), ShortenPool(p)))

SpecWide == InitWide /\ [][Next]_vars

\* Fitting: valid and invalid shapes with every binning method (and an
\* unknown one; sklearn's only on alphabets of at most MaxSklearnAlphabet
\* letters: KMeans wants no more clusters than training windows), with
\* and without labels; the typed dictionary with n-grams
\* and deep pyramids; a number of jobs that is no integer.
MaxSklearnAlphabet == 4

\* The values of n_jobs: None, integers from below -cpu_count to above
\* it, and values that are no integers (a float, a bool, a string; the
\* bools are 0 and 1, the string has no number).
JobsValues ==
  { NJobs("NoneType", 0), NJobs("str", 0) }
  \cup { NJobs("int", v) : v \in (-(MaxCpu + 2))..(MaxCpu + 1) }
  \cup { NJobs("float", v) : v \in {-1, 0, 2} }
  \cup { NJobs("bool", v) : v \in {0, 1} }

\* A valid shape and one whose word_length is invalid.
JobsShapes == { <<2, 2, 1>>, <<0, 2, 1>> }

FitShapes ==
  { <<2, 2, 1>>, <<2, 3, 1>>, <<2, 4, 2>>, <<0, 2, 1>>, <<2, 1, 1>>,
    <<10, 16, 1>>, <<8, 256, 1>>, <<40, 256, 1>> }

FitConfigs ==
  { p \in { [Shape(Base, sh[1], sh[2], sh[3]) EXCEPT !.binning_method = m] :
              sh \in FitShapes, m \in binning_methods \cup {"equi-height"} } :
      p.binning_method \in SklearnMethods
        => p.alphabet_size <= MaxSklearnAlphabet }
  \cup
  { [Options(Shape(Base, sh[1], sh[2], sh[3]), b, FALSE, FALSE, l, TRUE)
       EXCEPT !.n_jobs = j] :
      sh \in FitShapes, b \in BOOLEAN, l \in {1, MaxTypedLevels + 1},
      j \in {NJobs("int", 1), NJobs("float", 1)} }
  \cup
  { [Shape(Base, 6, 2, 7) EXCEPT !.use_fallback_dft = FALSE] }
  \cup
  { [Shape(Base, sh[1], sh[2], sh[3]) EXCEPT !.n_jobs = j] :
      sh \in JobsShapes, j \in JobsValues }

FitTransformPool(p) ==
  { << Sliding(p, RunPats(<<Lo, Hi>>, <<Hi, Lo>>, MaxWindows - 1)) >> }
  \cup (IF p.window_size >= 3 THEN { << Short(p, <<Hi, Lo>>, 2) >> } ELSE {})

\* Whole-series mode: window_size 0, and window_size equal to the length
\* of every series (MaxWindows - 1 samples), which then has one window.
WholeLength == MaxWindows - 1

WholeConfigs ==
  { [Options(Shape(Base, 2, 2, ws), FALSE, FALSE, r, 1, t)
       EXCEPT !.save_words = TRUE] :
      ws \in {0, WholeLength}, r \in BOOLEAN, t \in BOOLEAN }

Whole(p, pat) == Series(WholeLength, <<pat>>, RowLen(p))

WholeTrainX(p) == << Whole(p, <<Lo, Hi>>), Whole(p, <<Hi, Lo>>) >>

WholeTransformPool(p) ==
  { << Whole(p, <<Hi, Lo>>) >>,
    << Whole(p, <<Lo, Lo>>), Whole(p, <<Hi, Hi>>) >> }

\* Feature selection: windows of 4 samples, 4 coefficients a window and
\* words of 2 letters, on whole series.
AnovaConfigs ==
  { [Shape(Base, 2, 2, 4) EXCEPT !.anova = TRUE, !.keep_binning_dft = k] :
      k \in BOOLEAN }

\* A series of one window with the given coefficient row.
OneWindow(p, row) == [n |-> p.window_size, dft |-> <<row>>]

\* Training collections: one with a constant first coefficient, one with
\* a single coefficient that varies.
AnovaTrainPool(p) ==
  { << OneWindow(p, <<Lo, Lo, Hi, Mid>>),
       OneWindow(p, <<Lo, Hi, Lo, Hi>>),
       OneWindow(p, <<Lo, Mid, Mid, Lo>>) >>,
    << OneWindow(p, <<Mid, Lo, Hi, Hi>>),
       OneWindow(p, <<Mid, Hi, Hi, Hi>>) >> }

AnovaTransformPool(p, X) ==
  { X, << OneWindow(p, <<Hi, Lo, Mid, VHi>>) >> }

\* Binning windows that overlap or are cut short: series of MaxWindows - 1
\* samples with a window of one sample less and a window of two samples
\* more.  A series holds the coefficient row of the window that starts at
\* each of its samples.
BinningLength == MaxWindows - 1

BinningConfigs ==
  { [Shape(Base, 2, 2, ws) EXCEPT !.keep_binning_dft = TRUE] :
      ws \in {BinningLength - 1, BinningLength + 2} }

BinningTrainX(p) ==
  << Series(BinningLength,
            [s \in 1..BinningLength |-> <<CoefValues[(s % 4) + 1], Lo>>], RowLen(p)),
     Series(BinningLength,
            [s \in 1..BinningLength |-> <<CoefValues[((s + 1) % 4) + 1], Hi>>],
            RowLen(p)) >>

InitFit ==
  \/ \E p \in BinningConfigs :
       Constructed(p, [Env(p, None, MaxCpu, {BinningTrainX(p)}, {1})
                         EXCEPT !.X = BinningTrainX(p)])
  \/ \E p \in AnovaConfigs, y \in {None, "labels"} :
     \E X \in AnovaTrainPool(p) :
       Constructed(p, [Env(p, y, MaxCpu, AnovaTransformPool(p, X), {1})
                         EXCEPT !.X = X])
  \/ \E p \in FitConfigs, y \in {None, "labels"}, cpu_count \in 1..MaxCpu :
       /\ p.n_jobs.v >= 0 => cpu_count = MaxCpu
       /\ Constructed(p, Env(p, y, cpu_count, FitTransformPool(p), {1}))
  \/ \E p \in WholeConfigs :
       Constructed(p, [Env(p, None, MaxCpu, WholeTransformPool(p), {1})
                         EXCEPT !.X = WholeTrainX(p)])

SpecFit == InitFit /\ [][Next]_vars


\* ------------------------------------------------------------------------
\* The Fourier transforms on samples
\* ------------------------------------------------------------------------

\* Samples are integers in units of 1e-9.  A coefficient is kept as the
\* three numbers it is computed from, raw * inv / std: the sum of the
\* transform, the reciprocal root it is scaled with and the standard
\* deviation it is divided by.
Coef(raw, inv, std) == [raw |-> raw, inv |-> inv, std |-> std]

\* A standard deviation, kept by its square num / den (in units squared).
StdOf(num, den) == [one |-> FALSE, num |-> num, den |-> den]

\* The 1 that replaces a standard deviation too small to divide by.
StdOne == [one |-> TRUE, num |-> 1, den |-> 1]

\* The square of the floor 1e-8 of a standard deviation, in units squared.
StdFloorSquared == 100

RECURSIVE SumSeq(_)
SumSeq(seq) == IF seq = <<>> THEN 0 ELSE Head(seq) + SumSeq(Tail(seq))

\* np.multiply(window, window)
Squares(seq) == [i \in 1..Len(seq) |-> seq[i] * seq[i]]

\* series[a:b]
Slice(series, a, b) == SubSeq(series, a + 1, Min(b, Len(series)))

\* math.cos and math.sin of 2 * pi * num / den, for the den (1, 2 and 4)
\* that give a whole number of quarter turns.
QuarterTurns(num, den) == (num * (4 \div den)) % 4

CosTurns(num, den) ==
  LET q == QuarterTurns(num, den)
  IN  IF q = 0 THEN 1 ELSE IF q = 2 THEN -1 ELSE 0

SinTurns(num, den) ==
  LET q == QuarterTurns(num, den)
  IN  IF q = 1 THEN 1 ELSE IF q = 3 THEN -1 ELSE 0

\* np.std(series) with "if std == 0: std = 1".
StdOrOneIfZero(series) ==
  LET N == Len(series)
      v == N * SumSeq(Squares(series)) - SumSeq(series) * SumSeq(series)
  IN  IF v = 0 THEN StdOne ELSE StdOf(v, N * N)

\* SFA._discrete_fourier_transform: the sums of coefficient i = c ..
\* output_length / 2 - 1 over the samples, real and imaginary part in
\* turn; with the normalising factor the imaginary parts change sign for
\* lower bounding and every entry is scaled and divided by the standard
\* deviation.
_discrete_fourier_transform(series, dft_length, norm, inverse_sqrt_win_size, lower_bounding, apply_normalising_factor, cut_start_if_norm) ==
  LET output_length == (IF norm THEN 2 ELSE 0) + dft_length
      start == IF cut_start_if_norm /\ norm THEN 2 ELSE 0
      c == start \div 2
      N == Len(series)
      re(i) == SumSeq([n \in 1..N |-> series[n] * CosTurns((n - 1) * i, N)])
      im(i) == SumSeq([n \in 1..N |-> -series[n] * SinTurns((n - 1) * i, N)])
      sum(k) == LET i == c + ((k - 1) \div 2)
                IN  IF i >= output_length \div 2 THEN 0
                    ELSE IF k % 2 = 1 THEN re(i) ELSE im(i)
  IN  [k \in 1..(output_length - start) |->
         IF apply_normalising_factor
         THEN Coef(IF lower_bounding /\ k % 2 = 0 THEN -sum(k) ELSE sum(k),
                   inverse_sqrt_win_size, StdOrOneIfZero(series))
         ELSE Coef(sum(k), RecipSqrt(1), StdOne)]

\* np.std(series) with "std = s if s > 1e-8 else 1".
StdOrOneIfSmall(series) ==
  LET N == Len(series)
      v == N * SumSeq(Squares(series)) - SumSeq(series) * SumSeq(series)
  IN  IF v > StdFloorSquared * N * N THEN StdOf(v, N * N) ELSE StdOne

\* SFA._fast_fourier_transform: [dft, raised].  np.fft.rfft gives
\* len(series) // 2 + 1 coefficients; the first length / 2 of them are
\* copied into the even and odd entries (a single one is broadcast, fewer
\* than length / 2 otherwise raise a ValueError), the imaginary parts
\* change sign for lower bounding, and every entry is scaled and divided
\* by the standard deviation.
_fast_fourier_transform(sf, series) ==
  LET start == IF sf.norm THEN 2 ELSE 0
      N == Len(series)
      n_rfft == (N \div 2) + 1
      length == start + sf.dft_length
      re(i) == SumSeq([n \in 1..N |-> series[n] * CosTurns((n - 1) * i, N)])
      im(i) == SumSeq([n \in 1..N |-> -series[n] * SinTurns((n - 1) * i, N)])
      sum(k) == LET i == IF n_rfft = 1 THEN 0 ELSE (k - 1) \div 2
                IN  IF k % 2 = 1 THEN re(i) ELSE im(i)
      dft == [k \in 1..length |->
                Coef(IF (sf.lower_bounding \/ sf.lower_bounding_distances)
                        /\ k % 2 = 0
                     THEN -sum(k) ELSE sum(k),
                     sf.inverse_sqrt_win_size, StdOrOneIfSmall(series))]
  IN  IF n_rfft < length \div 2 /\ n_rfft # 1
      THEN [dft |-> <<>>, raised |-> "ValueError"]
      ELSE [dft |-> SubSeq(dft, start + 1, length), raised |-> None]

\* The row of one window in _binning_dft: [dft, raised].
BinningRow(sf, row) ==
  IF sf._use_fallback_dft
  THEN [dft |-> _discrete_fourier_transform(
                  row, sf.dft_length, sf.norm, sf.inverse_sqrt_win_size,
                  sf.lower_bounding \/ sf.lower_bounding_distances,
                  TRUE, TRUE),
        raised |-> None]
  ELSE _fast_fourier_transform(sf, row)

\* SFA._get_phis
_get_phis(window_size, length) ==
  [k \in 1..length |->
     LET i == (k - 1) \div 2
     IN  IF i >= length \div 2 THEN 0
         ELSE IF k % 2 = 1 THEN CosTurns(-i, window_size)
         ELSE -SinTurns(-i, window_size)]

\* The running sum and sum of squares of _calc_incremental_mean_std after
\* w turns of its loop.
RECURSIVE RunningSums(_, _, _)
RunningSums(series, w, window_size) ==
  IF w = 0
  THEN LET window == Slice(series, 0, window_size)
       IN  [series_sum |-> SumSeq(window),
            square_sum |-> SumSeq(Squares(window))]
  ELSE LET before == RunningSums(series, w - 1, window_size)
           in == series[w + window_size]
           gone == series[w]
       IN  [series_sum |-> before.series_sum + in - gone,
            square_sum |-> before.square_sum + (in * in - gone * gone)]

\* SFA._calc_incremental_mean_std: buf if buf > 1e-8 else 1, for each of
\* the `end` windows, with
\* buf^2 = square_sum / window_size - (series_sum / window_size)^2.
_calc_incremental_mean_std(series, end, window_size) ==
  [w \in 1..end |->
     LET sums == RunningSums(series, w - 1, window_size)
         v == window_size * sums.square_sum
                - sums.series_sum * sums.series_sum
     IN  IF v > StdFloorSquared * window_size * window_size
         THEN StdOf(v, window_size * window_size)
         ELSE StdOne]

\* One turn of the loop of _iterate_mft over the windows: mft_data of
\* window i (0-based, i >= 1) from that of window i - 1.
MftStep(series, mft_data, phis, window_size, i) ==
  [k \in 1..Len(mft_data) |->
     LET n == k - ((k - 1) % 2)
         real == mft_data[n] + series[i + window_size] - series[i]
         imag == mft_data[n + 1]
     IN  IF k = n THEN real * phis[n] - imag * phis[n + 1]
         ELSE real * phis[n + 1] + phis[n] * imag]

RECURSIVE _iterate_mft(_, _, _, _, _)
_iterate_mft(series, mft_data, phis, window_size, i) ==
  IF i = 0 THEN mft_data
  ELSE MftStep(series,
               _iterate_mft(series, mft_data, phis, window_size, i - 1),
               phis, window_size, i)

\* SFA._mft on samples, with the fallback transform for the first window:
\* the rows transformed[i] = mft_data * inverse_sqrt_win_size / stds[i],
\* the sign of the imaginary parts changed for lower bounding, cut to the
\* columns from start_offset.
_mft_fallback(sf, series) ==
  LET start_offset == IF sf.norm THEN 2 ELSE 0
      length == sf.dft_length + start_offset + (sf.dft_length % 2)
      end == Max(1, Len(series) - sf.window_size + 1)
      phis == _get_phis(sf.window_size, length)
      stds == _calc_incremental_mean_std(series, end, sf.window_size)
      first == _discrete_fourier_transform(
                 Slice(series, 0, sf.window_size), sf.dft_length, sf.norm,
                 sf.inverse_sqrt_win_size,
                 sf.lower_bounding \/ sf.lower_bounding_distances,
                 FALSE, FALSE)
      mft_data(i) == _iterate_mft(series, [k \in 1..length |-> first[k].raw],
                                  phis, sf.window_size, i)
      transformed(i) ==
        [k \in 1..length |->
           Coef(IF sf.lower_bounding /\ k % 2 = 0
                THEN -mft_data(i)[k] ELSE mft_data(i)[k],
                sf.inverse_sqrt_win_size, stds[i + 1])]
  IN  [i \in 1..end |-> SubSeq(transformed(i - 1), start_offset + 1, length)]

\* The samples of window i (0-based) of a series.
WindowOf(sf, series, i) == Slice(series, i, i + sf.window_size)

\* The direct transform of a window, with the normalisation and the sign
\* convention of _mft.
Direct(sf, window) ==
  _discrete_fourier_transform(window, sf.dft_length, sf.norm,
                              sf.inverse_sqrt_win_size, sf.lower_bounding,
                              TRUE, TRUE)

\* The longest series of samples.
MaxSamples == 5

\* The samples: differences far above and far below the floor of the
\* standard deviation.
SampleValues == {0, 1, 30}

\* The window sizes whose transform has whole quarter turns.
MftWindows == {1, 2, 4}

\* lower_bounding_distances is set only with norm, where the rows of short
\* words hold an imaginary part that is not 0.
MftConfigs ==
  { p \in { [Shape(Defaults, 2, 2, ws)
              EXCEPT !.norm = n, !.lower_bounding = lb,
                     !.lower_bounding_distances = lbd,
                     !.use_fallback_dft = TRUE] :
             ws \in MftWindows, n \in BOOLEAN, lb \in BOOLEAN,
             lbd \in BOOLEAN } :
      p.lower_bounding_distances => p.norm }

\* The series of samples of a configuration: of whole windows, or shorter
\* than the window with a length that divides 4.
SampleSeries(p) ==
  UNION { [1..len -> SampleValues] :
            len \in {l \in 1..MaxSamples :
                       l >= p.window_size \/ l \in MftWindows} }

InitMft ==
  \E p \in MftConfigs :
    \E series \in SampleSeries(p) :
      Constructed(p, [Env(p, None, MaxCpu, {}, {}) EXCEPT !.X = <<series>>])

\* _mft of a series of the collection.
Mft ==
  /\ \E i \in 1..Len(env.X) :
       out' = Returned(Call("_mft", env.X[i], 0),
                       _mft_fallback(self, env.X[i]))
  /\ UNCHANGED <<self, env, phase, call, task, result, order, saved, drawn, ggs>>

\* _discrete_fourier_transform of one window of a series of the
\* collection.
DirectTransform ==
  /\ \E i \in 1..Len(env.X) :
       \E w \in 0..(Max(1, Len(env.X[i]) - self.window_size + 1) - 1) :
         out' = Returned(Call("_discrete_fourier_transform",
                              WindowOf(self, env.X[i], w), 0),
                         Direct(self, WindowOf(self, env.X[i], w)))
  /\ UNCHANGED <<self, env, phase, call, task, result, order, saved, drawn, ggs>>

\* _fast_fourier_transform of one window of a series of the collection.
FastTransform ==
  /\ \E i \in 1..Len(env.X) :
       \E w \in 0..(Max(1, Len(env.X[i]) - self.window_size + 1) - 1) :
         LET c == Call("_fast_fourier_transform",
                       WindowOf(self, env.X[i], w), 0)
             r == _fast_fourier_transform(self, WindowOf(self, env.X[i], w))
         IN  out' = IF r.raised = None THEN Returned(c, r.dft)
                    ELSE Raised(c, r.raised)
  /\ UNCHANGED <<self, env, phase, call, task, result, order, saved, drawn, ggs>>

\* The transform of one row of _binning_dft.
BinningTransform ==
  /\ \E i \in 1..Len(env.X) :
       \E w \in 0..(Max(1, Len(env.X[i]) - self.window_size + 1) - 1) :
         LET c == Call("_binning_dft", WindowOf(self, env.X[i], w), 0)
             r == BinningRow(self, WindowOf(self, env.X[i], w))
         IN  out' = IF r.raised = None THEN Returned(c, r.dft)
                    ELSE Raised(c, r.raised)
  /\ UNCHANGED <<self, env, phase, call, task, result, order, saved, drawn, ggs>>

NextMft == Mft \/ DirectTransform \/ FastTransform \/ BinningTransform

SpecMft == InitMft /\ [][NextMft]_vars


\* ------------------------------------------------------------------------
\* Greedy Gaussian segmentation
\* ------------------------------------------------------------------------

\* The longest series, the largest k_max and the largest max_shuffles.
MaxTimePoints == 9

MaxKMax == 3

MaxShuffles == 2

\* A dict with the values 0 and 1: its keys, and the keys whose value is 1.
Dict(keys, ones) == [keys |-> keys, ones |-> ones]

\* {b: 0 for b in bp}
AllZero(bp) == Dict(Range(bp), {})

\* d[key] = value
DictSet(d, key, value) ==
  Dict(d.keys \cup {key},
       IF value = 1 THEN d.ones \cup {key} ELSE d.ones \ {key})

\* del d[key]
DictDel(d, key) == Dict(d.keys \ {key}, d.ones \ {key})

\* d[key] of a key of d
DictGet(d, key) == IF key \in d.ones THEN 1 ELSE 0

\* "d1[k1] == 1 or d2[k2] == 1 or ...": the lookups run from the left
\* until one gives 1; the lookup of a missing key raises KeyError.
RECURSIVE AnyIsOne(_)
AnyIsOne(lookups) ==
  IF lookups = <<>> THEN "False"
  ELSE LET d == Head(lookups)[1]
           key == Head(lookups)[2]
       IN  IF key \notin d.keys THEN "KeyError"
           ELSE IF key \in d.ones THEN "True"
           ELSE AnyIsOne(Tail(lookups))

\* _GGS.identity_segmentation, on data of n time points.
identity_segmentation(n) == <<0, n + 1>>

\* The number of rows of data[start:stop, :].
SegmentRows(n, start, stop) == Max(Min(stop, n) - Min(start, n), 0)

\* range(0, m - 1): the range with its lower end at 0, which would let a
\* split point coincide with the start of its segment.
SplitPointsFromZero(m) == 0..(m - 2)

\* range(2, m - 1): the split points add_new_change_point tries.
SplitPoints(m) == 2..(m - 2)

\* The differences min_ll - orig_ll of a split that lowers the objective:
\* two, so that any segment can hold the smallest.
Gains == {-2, -1}

\* _GGS.add_new_change_point on a segment of m rows: (0, 0) when no split
\* point lowers the objective, or a split point with a negative
\* difference; the data decide which.  data[0, :] of a segment without
\* rows raises IndexError.
add_new_change_point(m) ==
  IF m < 1 THEN {[ind |-> 0, val |-> 0, raised |-> "IndexError"]}
  ELSE {[ind |-> 0, val |-> 0, raised |-> None]}
         \cup {[ind |-> i, val |-> v, raised |-> None] :
                 i \in SplitPoints(m), v \in Gains}

\* What add_new_change_point may return for the segments j, j + 1, ... of
\* the change points.
RECURSIVE SegmentOutcomes(_, _, _)
SegmentOutcomes(change_points, n, j) ==
  IF j > Len(change_points) - 1 THEN { <<>> }
  ELSE {<<o>> \o rest :
          o \in add_new_change_point(
                  SegmentRows(n, change_points[j], change_points[j + 1])),
          rest \in SegmentOutcomes(change_points, n, j + 1)}

\* The loop of find_change_points over the segments, from segment j on:
\* "if val < new_value: new_index = ind + start; new_value = val".
RECURSIVE BestSplit(_, _, _, _)
BestSplit(change_points, outcomes, j, best) ==
  IF j > Len(outcomes) THEN best
  ELSE BestSplit(change_points, outcomes, j + 1,
                 IF outcomes[j].val < best.new_value
                 THEN [new_index |-> outcomes[j].ind + change_points[j],
                       new_value |-> outcomes[j].val]
                 ELSE best)

\* The loop of _predict: labels[start:stop] = i for segment i, i + 1, ...
RECURSIVE AssignLabels(_, _, _)
AssignLabels(labels, change_points, i) ==
  IF i > Len(change_points) - 2 THEN labels
  ELSE AssignLabels(
         [t \in 1..Len(labels) |->
            IF change_points[i + 1] <= t - 1 /\ t - 1 < change_points[i + 2]
            THEN i ELSE labels[t]],
         change_points, i + 1)

\* A segmenter on data of n time points, before _predict.
NewGGS(n, k_max, max_shuffles) ==
  [ pc |-> "new", n |-> n, k_max |-> k_max, max_shuffles |-> max_shuffles,
    _intermediate_change_points |-> <<>>,
    change_points |-> <<>>, k |-> 0,
    bp |-> <<>>, last_pass |-> Dict({}, {}), this_pass |-> Dict({}, {}),
    shuffles |-> 0, ordering |-> <<>>, switch_any |-> FALSE,
    returned |-> <<>>, y_pred |-> <<>>, raised |-> None ]

\* find_change_points returns the change points and _predict labels the
\* time points.
ReturnChangePoints(g, change_points) ==
  [g EXCEPT !.pc = "returned",
            !.returned = change_points,
            !.y_pred = AssignLabels([t \in 1..g.n |-> 0], change_points, 0)]

\* An exception ends the run.
RaiseGGS(g, exc) == [g EXCEPT !.pc = "raised", !.raised = exc]

\* find_change_points after adjust_change_points has returned bp: the
\* change points are recorded and the next turn of the loop begins.
AfterAdjust(g, bp) ==
  [g EXCEPT !.pc = "search",
            !.change_points = bp,
            !._intermediate_change_points = Append(@, bp),
            !.k = @ + 1]

\* adjust_change_points up to its loop: a list of three is returned as it
\* is, otherwise the new index is marked in this_pass.
BeginAdjust(g, change_points, new_index) ==
  IF Len(change_points) = 3 THEN AfterAdjust(g, change_points)
  ELSE [g EXCEPT !.pc = "adjust",
                 !.bp = change_points,
                 !.last_pass = Dict({}, {}),
                 !.this_pass = DictSet(AllZero(change_points), new_index, 1),
                 !.shuffles = 0]

\* The orders rng.shuffle may give to list(range(1, len(bp) - 1)).
Shuffles(bp) ==
  LET k == Len(bp) - 2
  IN  {s \in [1..k -> 1..k] : \A a, b \in 1..k : s[a] = s[b] => a = b}

\* The start of find_change_points.
FindChangePoints ==
  /\ ggs.pc = "new"
  /\ ggs' = [ggs EXCEPT
               !.pc = "search",
               !.change_points = identity_segmentation(ggs.n),
               !._intermediate_change_points =
                  <<identity_segmentation(ggs.n)>>]
  /\ UNCHANGED <<self, env, phase, call, task, result, order, out, saved, drawn>>

\* One turn of the loop of find_change_points, up to the loop of
\* adjust_change_points; or its end after k_max turns.
Search ==
  /\ ggs.pc = "search"
  /\ IF ggs.k = ggs.k_max
     THEN ggs' = ReturnChangePoints(ggs, ggs.change_points)
     ELSE \E outcomes \in SegmentOutcomes(ggs.change_points, ggs.n, 1) :
            LET best == BestSplit(ggs.change_points, outcomes, 1,
                                  [new_index |-> -1, new_value |-> 1])
            IN  IF \E j \in 1..Len(outcomes) : outcomes[j].raised # None
                THEN ggs' = RaiseGGS(ggs, "IndexError")
                ELSE IF best.new_value = 0
                THEN ggs' = ReturnChangePoints(ggs, ggs.change_points)
                ELSE ggs' = BeginAdjust(
                              ggs,
                              SortInts(Append(ggs.change_points,
                                              best.new_index)),
                              best.new_index)
  /\ UNCHANGED <<self, env, phase, call, task, result, order, out, saved, drawn>>

\* The head of a pass of adjust_change_points, or its return after
\* max_shuffles passes.
BeginPass ==
  /\ ggs.pc = "adjust"
  /\ IF ggs.shuffles = ggs.max_shuffles
     THEN ggs' = AfterAdjust(ggs, ggs.bp)
     ELSE \E ordering \in Shuffles(ggs.bp) :
            ggs' = [ggs EXCEPT !.pc = "pass",
                               !.shuffles = @ + 1,
                               !.last_pass = ggs.this_pass,
                               !.this_pass = AllZero(ggs.bp),
                               !.switch_any = FALSE,
                               !.ordering = ordering]
  /\ UNCHANGED <<self, env, phase, call, task, result, order, out, saved, drawn>>

\* One turn of the loop over the ordering: change point i is moved to the
\* split that add_new_change_point finds between its neighbours.
AdjustStep ==
  /\ ggs.pc = "pass"
  /\ ggs.ordering # <<>>
  /\ LET i == Head(ggs.ordering)
         left == ggs.bp[i]
         this == ggs.bp[i + 1]
         right == ggs.bp[i + 2]
         check == AnyIsOne(<< <<ggs.last_pass, left>>,
                              <<ggs.last_pass, right>>,
                              <<ggs.this_pass, left>>,
                              <<ggs.this_pass, right>> >>)
         rest == [ggs EXCEPT !.ordering = Tail(@)]
     IN  IF check = "KeyError" THEN ggs' = RaiseGGS(ggs, "KeyError")
         ELSE IF check = "False" THEN ggs' = rest
         ELSE \E o \in add_new_change_point(
                         SegmentRows(ggs.n, left, right)) :
                IF o.raised # None THEN ggs' = RaiseGGS(ggs, o.raised)
                ELSE IF this # o.ind + left /\ o.val # 0
                THEN IF this \notin ggs.last_pass.keys
                          \/ this \notin ggs.this_pass.keys
                     THEN ggs' = RaiseGGS(ggs, "KeyError")
                     ELSE ggs' =
                            [rest EXCEPT
                               !.last_pass =
                                  DictDel(DictSet(@, o.ind + left,
                                                  DictGet(@, this)),
                                          this),
                               !.this_pass =
                                  DictSet(DictDel(@, this), o.ind + left, 1),
                               !.bp = [@ EXCEPT ![i + 1] = o.ind + left],
                               !.switch_any = TRUE]
                ELSE ggs' = rest
  /\ UNCHANGED <<self, env, phase, call, task, result, order, out, saved, drawn>>

\* The end of a pass: without a move adjust_change_points returns.
EndPass ==
  /\ ggs.pc = "pass"
  /\ ggs.ordering = <<>>
  /\ ggs' = IF ~ggs.switch_any THEN AfterAdjust(ggs, ggs.bp)
            ELSE [ggs EXCEPT !.pc = "adjust"]
  /\ UNCHANGED <<self, env, phase, call, task, result, order, out, saved, drawn>>

NextGGS ==
  \/ FindChangePoints
  \/ Search
  \/ BeginPass
  \/ AdjustStep
  \/ EndPass

InitGGS ==
  /\ Estimator(Base, Env(Base, None, MaxCpu, {}, {}))
  /\ \E n \in 1..MaxTimePoints, k_max \in 0..MaxKMax,
        max_shuffles \in 0..MaxShuffles :
       ggs = NewGGS(n, k_max, max_shuffles)

SpecGGS == InitGGS /\ [][NextGGS]_vars


\* ------------------------------------------------------------------------
\* Decoding of bag keys
\* ------------------------------------------------------------------------

\* int(word).bit_length(): the bits of the absolute value.
bit_length(word) ==
  IF ZIsNeg(word) /\ \A i \in 1..Len(word.b) : word.b[i] = 0
  THEN Len(word.b) + 1
  ELSE Len(word.b)

\* The loop of word_list: word_length letters of letter_bits bits, the
\* first at bit `shift`, each `word >> shift & self.letter_max`.
LettersFrom(sf, word, shift) ==
  [k \in 1..sf.word_length |->
     ZToNat(ZAnd(ZShr(word, shift - (k - 1) * sf.letter_bits),
                 ZNat(sf.letter_max)))]

\* SFA.word_list: the letters of a key of an untyped dictionary.  The
\* result is `letters`, with bigram_letters before it if the key is longer
\* than word_bits + level_bits, and with the level after them if
\* levels > 1.
word_list(sf, word) ==
  LET word_bits == sf.word_bits + sf.level_bits
      long == bit_length(word) > sf.word_bits + sf.level_bits
  IN  [ letters |-> LettersFrom(sf, word, word_bits - sf.letter_bits),
        is_bigram |-> long,
        bigram_letters |->
          IF long
          THEN LettersFrom(sf, word, sf.word_bits + word_bits - sf.letter_bits)
          ELSE <<>>,
        has_level |-> sf.levels > 1,
        level |-> IF sf.levels > 1
                  THEN ZToNat(ZAnd(ZShr(word, 0), ZNat(sf.level_max)))
                  ELSE 0 ]

\* ------------------------------------------------------------------------
\* Properties
\* ------------------------------------------------------------------------

\* A call of `op` has returned.
HasReturned(op) == out.call.op = op /\ out.raised = None

\* What the task of series i of the collection X computes by itself from
\* the fitted state.
TaskAlone(X, i) == _transform_case(self, X[i], SuppliedDft(self, i))

\* C1: a transform of N series that returns, returns N bags, the i-th of
\* them the bag that the task of series i computes by itself from the
\* fitted state, whatever the number of workers and the order in which
\* the tasks started and completed; and it returns only if no task
\* failed.
C1_BagsInInputOrder ==
  HasReturned("transform") =>
    /\ Len(out.value) = Len(out.call.X)
    /\ \A i \in 1..Len(out.call.X) :
         /\ TaskAlone(out.call.X, i).raised = None
         /\ out.value[i] = TaskAlone(out.call.X, i).bag

\* Two series with different bags, the second completed first.
C1_Witness ==
  /\ HasReturned("transform")
  /\ Len(out.call.X) = 2
  /\ order = <<2, 1>>
  /\ out.value[1] # out.value[2]


\* The fitted state of an estimator of word length L that has the
\* breakpoints of sf cut to the first L letters.
Truncated(sf, L) ==
  [sf EXCEPT !.word_length = L,
             !.dft_length = L + (L % 2),
             !.support = SubSeq(sf.support, 1, L),
             !.breakpoints = SubSeq(sf.breakpoints, 1, L),
             !.word_bits = L * sf.letter_bits,
             !.max_bits = IF sf.bigrams \/ sf.skip_grams
                          THEN 2 * L * sf.letter_bits
                          ELSE L * sf.letter_bits]

\* The bag of a transform from scratch of series i of the saved
\* collection at word length L.
FromScratch(L, i) ==
  _transform_case(Truncated(self, L), saved[i], SuppliedDft(self, i)).bag

\* C2: the bags that _shorten_bags(L) returns are the bags of a transform
\* from scratch of the same series at word length L with the breakpoints
\* cut to the first L letters, for every L in 1..word_length and every
\* configuration of bigrams, skip_grams, levels and remove_repeat_words.
C2_ShortenIsFromScratch ==
  HasReturned("shorten") =>
    \A i \in 1..Len(saved) :
      out.call.word_len <= self.word_length
        => out.value[i] = FromScratch(out.call.word_len, i)


\* The coefficient rows of the windows of series i of the collection X,
\* as the task of a transform reads them.
RowsOf(X, i) ==
  IF self.keep_binning_dft THEN self.binning_dft[i]
  ELSE _mft(self, X[i]).dfts

\* The rows of series i of the saved collection.
WindowRows(i) == RowsOf(saved, i)

\* The bin indices of all saved words: per series, per window, per letter.
SavedLetters ==
  Flatten([i \in 1..Len(saved) |->
             [w \in 1..Len(WindowRows(i)) |-> Letters(self, WindowRows(i)[w])]])

\* C3: the letters that get_words decodes with _get_chars from the words
\* packed by _create_word are the bin indices the words were packed from,
\* in the same order, for every alphabet size.
C3_PackedLettersDecode ==
  HasReturned("get_words") => out.value = SavedLetters


\* The number of thresholds that the binning method produced for letter
\* i: what sklearn returned, or alphabet_size - 1 bin boundaries.
Produced(i) ==
  IF self.binning_method \in SklearnMethods THEN Len(drawn[i])
  ELSE self.alphabet_size - 1

\* C4: after fit with any binning method every row of the breakpoints is
\* non-decreasing, every slot after the thresholds that the method
\* produced holds the greatest float (the code's +infinity), and so does
\* the last column.
C4_BreakpointRowsSorted ==
  phase = "fitted" =>
    \A i \in 1..self.word_length :
      LET row == self.breakpoints[i]
      IN  /\ \A k \in 1..(self.alphabet_size - 1) : Leq(row[k], row[k + 1])
          /\ \A k \in (Produced(i) + 1)..self.alphabet_size : row[k] = FloatMax
          /\ row[self.alphabet_size] = FloatMax


\* The bit budget of the configuration: the bits of a word, doubled with
\* bigrams or skip-grams.
BitBudget ==
  self.word_length * CeilLog2(self.alphabet_size)
    * (IF self.bigrams \/ self.skip_grams THEN 2 ELSE 1)

\* The configuration passes every other check of fit.
OtherwiseValid ==
  /\ is_int(self.n_jobs) \/ self.n_jobs.t = "NoneType"
  /\ self.alphabet_size >= 2
  /\ self.word_length >= 1
  /\ self.binning_method \in binning_methods
  /\ self.binning_method \in {"information-gain", "information-gain-mae"}
       => env.y # None
  /\ self.typed_dict => self.levels <= MaxTypedLevels

ExactNgramKey(a, b) ==
  NgramKey(self, [z |-> ZOr(ZShl(a, self.word_bits), b), kind |-> "int"])

\* The words of the windows of series i of the collection X.
WordsOfSeries(X, i) ==
  [w \in 1..Len(RowsOf(X, i)) |-> WordRaw(self, RowsOf(X, i)[w])]

\* The offsets of the n-grams, in windows.
\* C6: in every configuration that fit accepts, the key of each bigram and
\* skip-gram in a returned bag keeps all bits of the earlier and of the
\* current word (shifted by level_bits with levels > 1): nothing is lost
\* to a 64-bit register, also with an untyped dictionary and words of 33
\* to 64 bits.
C6_NgramKeysKeepAllBits ==
  HasReturned("transform") =>
    \A i \in 1..Len(out.call.X) :
      LET words == WordsOfSeries(out.call.X, i)
      IN  \A w \in 1..Len(words), o \in OffsetSet(self) :
            w - o >= 1 =>
              ExactNgramKey(words[w - o], words[w]) \in DOMAIN out.value[i]


\* The constructor's arguments, as the estimator keeps them.
Params(sf) ==
  [ word_length |-> sf.word_length, alphabet_size |-> sf.alphabet_size,
    window_size |-> sf.window_size, norm |-> sf.norm,
    lower_bounding |-> sf.lower_bounding,
    lower_bounding_distances |-> sf.lower_bounding_distances,
    binning_method |-> sf.binning_method, anova |-> sf.anova,
    bigrams |-> sf.bigrams, skip_grams |-> sf.skip_grams,
    remove_repeat_words |-> sf.remove_repeat_words, levels |-> sf.levels,
    save_words |-> sf.save_words, keep_binning_dft |-> sf.keep_binning_dft,
    use_fallback_dft |-> sf.use_fallback_dft, typed_dict |-> sf.typed_dict,
    n_jobs |-> sf.n_jobs ]

\* The fit state: the breakpoints and the derived constants.
FitState(sf) ==
  [ breakpoints |-> sf.breakpoints, letter_bits |-> sf.letter_bits,
    letter_max |-> sf.letter_max, word_bits |-> sf.word_bits,
    max_bits |-> sf.max_bits, level_bits |-> sf.level_bits,
    n_cases |-> sf.n_cases, n_timepoints |-> sf.n_timepoints ]

\* C7: a fit that raises a configuration error has done no binning and
\* leaves no partial fit state: the breakpoints and letter_bits,
\* letter_max, word_bits, max_bits, level_bits, n_cases and n_timepoints
\* have the values they had before the call, those of the constructor.
C7_RaisedFitLeavesNoState ==
  phase = "fit_raised" =>
    /\ FitState(self) = FitState(SFA(Params(self)))
    /\ self.binning_dft = None

\* The windows of a series that start a maximal run of the word v.
RunsOf(words, v) ==
  Cardinality({w \in 1..Len(words) :
                 words[w] = v /\ (w = 1 \/ words[w - 1] # v)})

\* The windows of a series whose word is v.
Occurrences(words, v) == Cardinality({w \in 1..Len(words) : words[w] = v})

C9_BagTotalIsWindowCount ==
  (/\ HasReturned("transform")
   /\ self.levels = 1
   /\ NgramOffsets(self) = <<>>
   /\ ~self.remove_repeat_words)
    => \A i \in 1..Len(out.call.X) :
         BagTotal(out.value[i]) = out.call.X[i].n - self.window_size + 1

\* The letter at position k (1-based) of a packed word: letter_bits bits.
LetterAt(sf, word, k) ==
  ZToNat(ZAnd(ZShr(word, (sf.word_length - k) * sf.letter_bits),
              ZNat(Pow2(sf.letter_bits) - 1)))

\* C10: every word that transform produces lies in [0, 2^word_bits - 1]
\* and packs exactly word_length letters, each the index of the first bin
\* whose breakpoint is >= the coefficient and each in [0, alphabet_size):
\* no position is left without a bin.
C10_WordsInRange ==
  (HasReturned("transform") /\ self.save_words)
    => \A i \in 1..Len(saved) :
         \A w \in 1..Len(WindowRows(i)) :
           LET word == self.words[i][w]
               letters == Letters(self, WindowRows(i)[w])
           IN  /\ ZInRange(word, self.word_bits)
               /\ \A k \in 1..self.word_length :
                    /\ letters[k] \in 0..(self.alphabet_size - 1)
                    /\ LetterAt(self, word, k) = letters[k]

\* What fit derives and the later calls read.
FittedState(sf) ==
  [ breakpoints |-> sf.breakpoints, support |-> sf.support,
    dft_length |-> sf.dft_length, letter_bits |-> sf.letter_bits,
    word_bits |-> sf.word_bits, max_bits |-> sf.max_bits,
    level_bits |-> sf.level_bits ]

\* C11: once fit has returned, no step of transform, transform_words,
\* transform_mft, _shorten_bags (or get_words) changes the breakpoints,
\* the support, dft_length, letter_bits, word_bits, max_bits or
\* level_bits; the breakpoints change only in the step of fit.
C11_FittedStateIsFrozen ==
  [][/\ phase = "fitted"
       => (phase' = "fitted" /\ FittedState(self') = FittedState(self))
     /\ self'.breakpoints # self.breakpoints => phase = "new"]_vars

C11_Witness ==
  /\ HasReturned("transform_words")
  /\ saved # <<>>
  /\ self.words # <<>>
  /\ self.breakpoints # <<>>

\* C12: on an estimator whose save_words is False, _shorten_bags raises
\* at once: no shortening call is ever in progress (no task runs), and
\* the step that hands back its outcome raises ValueError, returns no
\* bags and changes nothing else.
C12_ShortenWithoutWordsRaises ==
  [][self.save_words = FALSE
       => /\ call'.op # "shorten"
          /\ (out'.call.op = "shorten" /\ out' # out)
               => /\ out'.raised = "ValueError"
                  /\ out'.value = None
                  /\ UNCHANGED <<self, env, phase, call, task, result,
                                 order, saved, drawn>>]_vars

C12_Witness ==
  /\ phase = "fitted"
  /\ self.save_words = FALSE
  /\ out.call.op = "shorten"
  /\ out.raised = "ValueError"
  /\ call = Idle

\* What the tasks of _shorten_bags give at word length L, series by
\* series.
ShortenedAt(L) == [i \in 1..Len(self.words) |-> _shorten_case(self, L, i)]

\* C13: _shorten_bags(L) with L > word_length does not fail and returns
\* exactly the bags of _shorten_bags(word_length): the words are not
\* shifted.
C13_LongTargetIsClamped ==
  (/\ call = Idle
   /\ out.call.op = "shorten"
   /\ self.save_words
   /\ out.call.word_len > self.word_length)
    => /\ out.raised = None
       /\ FirstRaised(ShortenedAt(self.word_length)) = None
       /\ out.value = BagsOf(ShortenedAt(self.word_length))

C13_Witness ==
  /\ HasReturned("shorten")
  /\ out.call.word_len = self.word_length + 1
  /\ Len(out.value) = 1
  /\ Cardinality(DOMAIN out.value[1]) >= 2

\* C14: for every input that check_n_jobs accepts it returns a worker
\* count >= 1, which fit keeps as _n_jobs: 1 for None and for 0,
\* max(1, cpu_count + 1 + n) for a negative integer n, n itself for a
\* positive integer; a function of n_jobs and the cpu count alone.
C14_WorkerCount ==
  phase # "new" =>
    LET r == check_n_jobs(self.n_jobs, env.cpu_count)
        n == self.n_jobs.v
    IN  r.raised = None =>
          /\ self._n_jobs = r.value
          /\ r.value >= 1
          /\ self.n_jobs.t = "NoneType" => r.value = 1
          /\ (self.n_jobs.t = "int" /\ n = 0) => r.value = 1
          /\ (self.n_jobs.t = "int" /\ n < 0 /\ env.cpu_count + 1 + n >= 1)
               => r.value = env.cpu_count + 1 + n
          /\ (self.n_jobs.t = "int" /\ n < 0 /\ env.cpu_count + 1 + n < 1)
               => r.value = 1
          /\ (self.n_jobs.t = "int" /\ n > 0) => r.value = n

C14_Witness ==
  /\ phase = "fitted"
  /\ self.n_jobs = NJobs("int", -(MaxCpu + 2))
  /\ env.cpu_count = MaxCpu
  /\ self._n_jobs = 1

\* C15: for every n_jobs that is neither None nor an integer (a float,
\* 0.0 included, a bool, False included, a string) check_n_jobs raises,
\* and fit raises with it before it validates or derives anything.
C15_NonIntegerJobsRaise ==
  (phase # "new" /\ self.n_jobs.t \notin {"NoneType", "int"})
    => /\ phase = "fit_raised"
       /\ out.raised = "ValueError"
       /\ check_n_jobs(self.n_jobs, env.cpu_count).raised = "ValueError"
       /\ FitState(self) = FitState(SFA(Params(self)))

\* The estimator works on whole series: window_size is 0 or the length of
\* every series it is given.
WholeSeriesMode ==
  \/ self.window_size = 0
  \/ /\ \A i \in 1..Len(env.X) : env.X[i].n = self.window_size
     /\ \A X \in env.transform_pool :
          \A i \in 1..Len(X) : X[i].n = self.window_size

\* C16: in whole-series mode (window_size 0, or equal to the series
\* length) fit and transform succeed, and every series yields one window
\* and one word: with levels = 1 and no n-grams a bag of a single key of
\* count 1.
C16_WholeSeriesOneWord ==
  (WholeSeriesMode /\ OtherwiseValid)
    => /\ phase # "new" => phase = "fitted"
       /\ (call = Idle /\ out.call.op = "transform")
            => /\ out.raised = None
               /\ \A i \in 1..Len(out.value) :
                    /\ Len(self.words[i]) = 1
                    /\ (self.levels = 1 /\ NgramOffsets(self) = <<>>)
                         => /\ Cardinality(DOMAIN out.value[i]) = 1
                            /\ BagTotal(out.value[i]) = 1


\* The pooled rows of the binning windows of the training collection,
\* with all the coefficients the constructor allowed for.
TrainingRows ==
  Flatten([i \in 1..Len(env.X) |->
             _binning_dft([self EXCEPT
                             !.dft_length = SFA(Params(self)).dft_length],
                          env.X[i])])

\* The word whose letter i is quantized from the coefficient of index
\* support[i] of the row.
WordOfSupport(row) ==
  _create_word([i \in 1..Len(self.support) |-> row[self.support[i] + 1]],
               self.word_length, self.alphabet_size, self.breakpoints,
               self.letter_bits)

\* C17: after fit with anova and labels the support holds word_length
\* distinct coefficient indices, breakpoint row i is trained from the
\* samples of coefficient support[i], and letter i of every word of a
\* later transform is quantized from coefficient support[i] of its
\* window, whether the coefficients are recomputed or kept from binning.
C17_SupportIsConsistent ==
  (phase = "fitted" /\ self.anova /\ env.y # None)
    => /\ Len(self.support) = self.word_length
       /\ Cardinality(Range(self.support)) = self.word_length
       /\ self.binning_method \in {"equi-depth", "equi-width"}
            => self.breakpoints
                 = _mcb(self, SelectColumns(TrainingRows, self.support))
       /\ (HasReturned("transform") /\ self.save_words)
            => \A s \in 1..Len(saved) :
                 \A w \in 1..Len(self.words[s]) :
                   self.words[s][w] = WordOfSupport(saved[s].dft[w])


\* Two coefficients with the same sum and the same scale are the same
\* number exactly when they are divided by the same standard deviation;
\* two sums of 0 give 0 whatever the divisor.
SameCoefficient(a, b) ==
  \/ a.raw = 0 /\ b.raw = 0
  \/ /\ a.raw = b.raw
     /\ a.inv = b.inv
     /\ a.std.one = b.std.one
     /\ a.std.num * b.std.den = b.std.num * a.std.den

SameRow(r1, r2) ==
  /\ Len(r1) = Len(r2)
  /\ \A k \in 1..Len(r1) : SameCoefficient(r1[k], r2[k])

\* C18: the coefficient vector that _mft produces for window i of a
\* series equals the direct transform (_discrete_fourier_transform) of
\* that window with the same normalisation and sign convention.
C18_MftEqualsDirect ==
  HasReturned("_mft")
    => \A i \in 1..Len(out.value) :
         SameRow(out.value[i],
                 Direct(self, WindowOf(self, out.call.X, i - 1)))


\* The lists of change points the run has produced: the entries of
\* _intermediate_change_points and the list returned.
ChangePointLists ==
  Range(ggs._intermediate_change_points)
    \cup (IF ggs.pc = "returned" THEN {ggs.returned} ELSE {})

\* C19: every list of change points that find_change_points returns, and
\* every entry of _intermediate_change_points, includes the identity
\* segmentation: its first element is 0 and its last element is the last
\* index + 1, the number n of time points.
C19_IdentityEndPoints ==
  \A cps \in ChangePointLists : cps[1] = 0 /\ cps[Len(cps)] = ggs.n

StrictlyIncreasing(seq) == \A a \in 1..(Len(seq) - 1) : seq[a] < seq[a + 1]

\* C20: when find_change_points has returned, the change points increase
\* strictly and hold at most k_max change points besides the two end
\* points; every time point lies in exactly one segment, whose index in
\* 0..k_max is its label, and the labels do not decrease along the series.
C20_ChangePointsOrdered ==
  /\ ggs.pc \in {"adjust", "pass"} => StrictlyIncreasing(ggs.bp)
  /\ ggs.pc # "new" => StrictlyIncreasing(ggs.change_points)
  /\ ggs.pc # "raised"
  /\ ggs.pc = "returned"
       => /\ StrictlyIncreasing(ggs.returned)
          /\ Len(ggs.returned) - 2 <= ggs.k_max
          /\ Len(ggs.y_pred) = ggs.n
          /\ \A t \in 1..ggs.n :
               /\ Cardinality({i \in 0..(Len(ggs.returned) - 2) :
                                 /\ ggs.returned[i + 1] <= t - 1
                                 /\ t - 1 < ggs.returned[i + 2]}) = 1
               /\ ggs.returned[ggs.y_pred[t] + 1] <= t - 1
               /\ t - 1 < ggs.returned[ggs.y_pred[t] + 2]
               /\ ggs.y_pred[t] \in 0..ggs.k_max
          /\ \A t \in 1..(ggs.n - 1) : ggs.y_pred[t] <= ggs.y_pred[t + 1]

C20_Witness ==
  /\ ggs.pc = "returned"
  /\ ggs.k_max = MaxKMax
  /\ Len(ggs.returned) = MaxKMax + 2
  /\ ggs.shuffles = MaxShuffles
  /\ ggs.y_pred[ggs.n] = MaxKMax

\* The window w (1-based) of a series is counted: without
\* remove_repeat_words every window is, with it the first window and
\* every window whose word differs from the word before it.
Counted(words, w) ==
  ~self.remove_repeat_words \/ w = 1 \/ words[w] # words[w - 1]

\* The pyramid key of the word v at level L for the window index t
\* (0-based): the quadrant (2^L - 1) + (t + window_size div 2) div
\* (n_timepoints div 2^L), paired with or packed below the word.
OwnKey(v, L, t) == _add_level(self, v, "int", Pow2(L) - 1, L, t)

\* The increments of the levels L..levels-1 for one window.
RECURSIVE OwnLevels(_, _, _, _)
OwnLevels(bag, v, L, t) ==
  IF L >= self.levels THEN bag
  ELSE OwnLevels(BagAdd(bag, OwnKey(v, L, t), Pow2(L)), v, L + 1, t)

\* The pyramid bag of a series from each counted window's own index.
RECURSIVE OwnPyramid(_, _, _)
OwnPyramid(bag, words, w) ==
  IF w > Len(words) THEN bag
  ELSE OwnPyramid(IF Counted(words, w)
                  THEN OwnLevels(bag, words[w], 0, w - 1) ELSE bag,
                  words, w + 1)

\* C21: with levels > 1 (and no n-grams) the bag of a series holds, for
\* every counted window with index t and word w and every level L, an
\* increment of 2^L at the key (w, q_L) with q_L = (2^L - 1) + floor((t +
\* window_size/2) / (n_timepoints / 2^L)) computed from the window's own
\* index t (the inner divisions are the integer divisions of the code),
\* and nothing else: the plain key w is not incremented.
C21_PyramidFromOwnIndex ==
  (HasReturned("transform") /\ self.levels > 1 /\ NgramOffsets(self) = <<>>)
    => \A i \in 1..Len(out.call.X) :
         out.value[i]
           = OwnPyramid(EmptyBag, WordsOfSeries(out.call.X, i), 1)

\* The quadrant ids of level L: 2^L of them from the base 2^L - 1.
LevelRange(L) == (Pow2(L) - 1)..(Pow2(L + 1) - 2)

\* C22: after fit with levels > 1, for every window index t of a series of
\* n_timepoints samples (0..n_timepoints - window_size) and every level L
\* the quadrant width n_timepoints / 2^L is not 0 and the quadrant id lies
\* in [2^L - 1, 2^(L+1) - 2], hence is <= level_max.
C22_QuadrantsInRange ==
  (phase = "fitted" /\ self.levels > 1) =>
    \A t \in 0..(self.n_timepoints - self.window_size) :
      \A L \in 0..(self.levels - 1) :
        /\ QuadrantWidth(self, L) # 0
        /\ Quadrant(self, Pow2(L) - 1, L, t) \in LevelRange(L)
        /\ Quadrant(self, Pow2(L) - 1, L, t) <= self.level_max

\* The sum of two bags.
BagSum(a, b) ==
  [k \in DOMAIN a \cup DOMAIN b |->
     (IF k \in DOMAIN a THEN a[k] ELSE 0)
       + (IF k \in DOMAIN b THEN b[k] ELSE 0)]

\* The n-grams of a series: the windows w (1-based) paired with the
\* enabled offsets o that reach a window of the series (index w - 1 >= o).
NgramPairs(words) ==
  {p \in (1..Len(words)) \X OffsetSet(self) : p[1] - p[2] >= 1}

\* The key of the n-gram p: the earlier word above the word_bits bits of
\* the current word.
PairKey(words, p) == ExactNgramKey(words[p[1] - p[2]], words[p[1]])

\* The bag with an increment of 1 for each n-gram of the series.
NgramsOf(words) ==
  [k \in {PairKey(words, p) : p \in NgramPairs(words)} |->
     Cardinality({p \in NgramPairs(words) : PairKey(words, p) = k})]

\* The bag of series i of the collection X without the n-grams.
WithoutNgrams(X, i) ==
  _transform_case([self EXCEPT !.bigrams = FALSE, !.skip_grams = FALSE],
                  X[i], SuppliedDft(self, i)).bag

\* C23: with bigrams (offset window_size) or skip-grams (offsets twice and
\* three times window_size) the bag of a series is the bag of its words
\* plus, for every window index t and every enabled offset o <= t, one
\* increment of 1 at the key formed from the word o windows earlier in the
\* high bits and the current word in the low word_bits bits; a window with
\* t < o adds no n-gram, so an offset adds max(0, W - o) increments to a
\* series of W windows.
C23_NgramsAdded ==
  (HasReturned("transform") /\ NgramOffsets(self) # <<>>)
    => \A i \in 1..Len(out.call.X) :
         LET words == WordsOfSeries(out.call.X, i)
         IN  /\ out.value[i]
                  = BagSum(WithoutNgrams(out.call.X, i), NgramsOf(words))
             /\ \A o \in OffsetSet(self) :
                  Cardinality({p \in NgramPairs(words) : p[2] = o})
                    = Max(0, Len(words) - o)

\* The letters packed in a word.
LettersOfWord(v) == [k \in 1..self.word_length |-> LetterAt(self, v, k)]

\* The type of the earlier word of an n-gram as _transform_case reads it.
EarlierKind == IF self.word_bits <= IntBits THEN "int64" ELSE "int"

\* What word_list is to give for the key of a plain word (levels = 1), of
\* a word in quadrant q, and of the n-gram of the words a (earlier) and b.
DecodedWord(v) ==
  [letters |-> LettersOfWord(v), is_bigram |-> FALSE, bigram_letters |-> <<>>,
   has_level |-> FALSE, level |-> 0]

DecodedLevel(v, q) ==
  [letters |-> LettersOfWord(v), is_bigram |-> FALSE, bigram_letters |-> <<>>,
   has_level |-> TRUE, level |-> q]

DecodedNgram(a, b) ==
  [letters |-> LettersOfWord(b), is_bigram |-> TRUE,
   bigram_letters |-> LettersOfWord(a),
   has_level |-> self.levels > 1, level |-> 0]

\* C24: word_list reconstructs what every key of a bag returned by
\* transform with an untyped dictionary was built from: the letters of a
\* plain word; the letters and the quadrant id of a pyramid key; the
\* letters of the earlier and of the current word of a bigram or
\* skip-gram key, for every pair of words.
C24_WordListDecodes ==
  (HasReturned("transform") /\ ~self._typed_dict)
    => \A i \in 1..Len(out.call.X) :
         LET words == WordsOfSeries(out.call.X, i)
             bag == out.value[i]
         IN  /\ self.levels = 1 =>
                  \A w \in 1..Len(words) :
                    words[w] \in DOMAIN bag
                      => word_list(self, words[w]) = DecodedWord(words[w])
             /\ self.levels > 1 =>
                  \A w \in 1..Len(words), L \in 0..(self.levels - 1) :
                    \A t \in 0..(w - 1) :
                      LET key == _add_level(self, words[w], "int",
                                            Pow2(L) - 1, L, t)
                      IN  key \in DOMAIN bag
                            => word_list(self, key)
                                 = DecodedLevel(words[w],
                                      Quadrant(self, Pow2(L) - 1, L, t))
             /\ \A p \in NgramPairs(words) :
                  LET a == words[p[1] - p[2]]
                      b == words[p[1]]
                      key == NgramKey(self,
                               _create_bigram_words(self, b, a, EarlierKind))
                  IN  /\ key \in DOMAIN bag
                      /\ word_list(self, key) = DecodedNgram(a, b)

\* The provenance of the rows of the pooled matrix of _binning: the series
\* and the window of each row, in the order of np.array(...).reshape.
PooledWindows(sf) ==
  Flatten([i \in 1..sf.n_cases |->
             [j \in 1..Len(BinningWindows(sf)) |-> <<i, j>>]])

\* One label per training series: its index.
CaseLabels == [i \in 1..self.n_cases |-> i]

\* C25: after fit each series of n = n_timepoints samples has contributed
\* ceil(n / window_size) windows of exactly window_size samples, window j
\* covering [j * window_size, (j + 1) * window_size) and the last one
\* [n - window_size, n); the pooled matrix has n_cases * ceil(n /
\* window_size) rows in series order, the label repeated for row r is the
\* label of the series that produced it, and the rows kept by
\* keep_binning_dft are those of these windows.
C25_BinningWindows ==
  phase = "fitted" =>
    LET n == self.n_timepoints
        ws == self.window_size
        k == CeilDiv(n, ws)
        windows == BinningWindows(self)
        pooled == PooledWindows(self)
    IN  /\ Len(windows) = k
        /\ \A j \in 0..(k - 1) :
             /\ windows[j + 1][2] - windows[j + 1][1] = ws
             /\ windows[j + 1] = IF j = k - 1 THEN <<n - ws, n>>
                                 ELSE <<j * ws, (j + 1) * ws>>
        /\ Len(pooled) = self.n_cases * k
        /\ \A r \in 1..Len(pooled) :
             /\ pooled[r] = <<((r - 1) \div k) + 1, ((r - 1) % k) + 1>>
             /\ np_repeat(CaseLabels, k)[r] = CaseLabels[pooled[r][1]]
        /\ (self.keep_binning_dft /\ ~self.anova) =>
             \A i \in 1..self.n_cases, j \in 0..(k - 1) :
               self.binning_dft[i][j + 1]
                 = SubSeq(env.X[i].dft[
                            (IF j = k - 1 THEN n - ws ELSE j * ws) + 1],
                          1, self.dft_length)

\* Two divisors are the same number.
SameStd(a, b) == a.one = b.one /\ a.num * b.den = b.num * a.den

\* A divisor is the 1 that replaces a small standard deviation, or a
\* standard deviation of at least 1e-8.
AtLeastFloor(std) == std.one \/ std.num >= StdFloorSquared * std.den

\* The divisors that the direct and the FFT-based transform pick for a
\* window.
DirectStd(window) == Direct(self, window)[1].std

FastStd(window) == _fast_fourier_transform(self, window).dft[1].std

\* C26: the direct transform, the FFT-based transform and the incremental
\* standard deviations of _mft replace a window's standard deviation below
\* 1e-8 by 1: whichever of them has run, its divisor is at least 1e-8 and
\* is the divisor the other paths pick for the same window.
C26_SameStdFloor ==
  /\ (out.call.op \in {"_discrete_fourier_transform",
                       "_fast_fourier_transform"} /\ out.raised = None)
       => /\ AtLeastFloor(out.value[1].std)
          /\ SameStd(out.value[1].std, DirectStd(out.call.X))
          /\ SameStd(out.value[1].std, FastStd(out.call.X))
          /\ SameStd(out.value[1].std,
                     _mft_fallback(self, out.call.X)[1][1].std)
  /\ HasReturned("_mft")
       => \A i \in 1..Len(out.value) :
            LET window == WindowOf(self, out.call.X, i - 1)
            IN  /\ AtLeastFloor(out.value[i][1].std)
                /\ SameStd(out.value[i][1].std, DirectStd(window))
                /\ SameStd(out.value[i][1].std, FastStd(window))

\* The key under which the first window of a series counts its word v:
\* the word, or with levels > 1 the word in quadrant 0 of level 0.
FirstKey(v) ==
  IF self.levels > 1 THEN _add_level(self, v, "int", 0, 0, 0) ELSE v

CountedWith(words, v) ==
  Cardinality({w \in 1..Len(words) : words[w] = v /\ Counted(words, w)})

\* The keys of the n-grams of a series, as the code builds them.
NgramKeysOf(words) ==
  {NgramKey(self, _create_bigram_words(self, words[p[1]],
                                       words[p[1] - p[2]], EarlierKind)) :
     p \in NgramPairs(words)}

\* The keys of the words of a series: the words or, with levels > 1, the
\* keys of the words in the quadrants of every level and window.
WordKeysOf(words) ==
  IF self.levels > 1
  THEN {_add_level(self, words[w], "int", Pow2(L) - 1, L, t) :
          w \in 1..Len(words), L \in 0..(self.levels - 1),
          t \in 0..(Len(words) - 1)}
  ELSE Range(words)

\* C28: with bigrams or skip-grams no n-gram key of a returned bag equals
\* a key of a single word (with levels > 1: of a word and a quadrant), and
\* with levels = 1 the count under a word's key is the number of counted
\* windows with that word, for every pair of words.
C28_KeySpacesDisjoint ==
  (HasReturned("transform") /\ NgramOffsets(self) # <<>>)
    => \A i \in 1..Len(out.call.X) :
         LET words == WordsOfSeries(out.call.X, i)
         IN  /\ NgramKeysOf(words) \cap WordKeysOf(words) = {}
             /\ self.levels = 1 =>
                  \A w \in 1..Len(words) :
                    /\ words[w] \in DOMAIN out.value[i]
                    /\ out.value[i][words[w]] = CountedWith(words, words[w])

\* Two rows have the same signed sums and the same scale factor.
SameConvention(r1, r2) ==
  /\ Len(r1) = Len(r2)
  /\ \A k \in 1..Len(r1) : r1[k].raw = r2[k].raw /\ r1[k].inv = r2[k].inv

\* C29: for every combination of lower_bounding and
\* lower_bounding_distances the rows that _mft gives transform have the
\* sign of the imaginary parts and the scale factor of the rows that
\* _binning_dft trains the breakpoints with (by the direct transform or by
\* the FFT-based one) for the same window.
C29_SameConvention ==
  (HasReturned("_mft") /\ Len(out.call.X) >= self.window_size)
    => \A i \in 1..Len(out.value) :
         LET window == WindowOf(self, out.call.X, i - 1)
         IN  /\ SameConvention(out.value[i], BinningRow(self, window).dft)
             /\ SameConvention(out.value[i],
                               _fast_fourier_transform(self, window).dft)

\* The window w (1-based) is suppressed by numerosity reduction: its word
\* equals the last word, which is -1 before the first window and the word
\* of the window before it afterwards.
Suppressed(words, w) ==
  /\ self.remove_repeat_words
  /\ words[w] = (IF w = 1 THEN ZMinusOne ELSE words[w - 1])

\* The total a bag of the series is to have: the windows not suppressed,
\* each with the weight of all levels, and one for each n-gram.
ConservedTotal(words) ==
  Cardinality({w \in 1..Len(words) : ~Suppressed(words, w)})
    * (IF self.levels = 1 THEN 1 ELSE Pow2(self.levels) - 1)
  + Cardinality(NgramPairs(words))

\* The words of series i shortened as _shorten_bags(word_len) does.
ShortenedWords(i, word_len) ==
  [w \in 1..Len(self.words[i]) |->
     _shorten_words(self, self.words[i][w], ClampWordLen(self, word_len))]

\* C30: the counts of a bag that transform or _shorten_bags returns sum to
\* C * (1 if levels = 1 else 2^levels - 1) + G, with C the windows not
\* suppressed by numerosity reduction and G the pairs of a window and an
\* enabled n-gram offset with window index >= offset: n-grams are added
\* for suppressed windows too.
C30_CountConservation ==
  /\ HasReturned("transform") =>
       \A i \in 1..Len(out.call.X) :
         BagTotal(out.value[i])
           = ConservedTotal(WordsOfSeries(out.call.X, i))
  /\ HasReturned("shorten") =>
       \A i \in 1..Len(out.value) :
         BagTotal(out.value[i])
           = ConservedTotal(ShortenedWords(i, out.call.word_len))

\* A returned transform with numerosity reduction, n-grams and levels > 1
\* of a series with a counted window and a suppressed window that has an
\* n-gram.
C30_Witness ==
  /\ HasReturned("transform")
  /\ self.remove_repeat_words /\ self.levels > 1
  /\ \E i \in 1..Len(out.call.X) :
       LET words == WordsOfSeries(out.call.X, i)
       IN  /\ \E p \in NgramPairs(words) : Suppressed(words, p[1])
           /\ \E w \in 2..Len(words) : ~Suppressed(words, w)
           /\ BagTotal(out.value[i]) = ConservedTotal(words)

=============================================================================
